---- MODULE Spec2Model ----
(***************************************************************************)
(* A model of the extraction-normalization-calculation pipeline of the     *)
(* Luma backend: utils/parser.py (locale number and date parsing, row      *)
(* extraction) and utils/calculator.py (category resolution, unit          *)
(* normalization, factor lookup, CO2e calculation).                        *)
(*                                                                         *)
(* Representation.                                                         *)
(*  - A Python str is a sequence of characters; a character is a string of *)
(*    length one.  A character outside ASCII is written by name:           *)
(*      "o_acute" U+00F3   "e_acute" U+00E9   "sup3" U+00B3  "euro" U+20AC *)
(*      "A_tilde" U+00C3   "a_tilde" U+00E3   "A_circ" U+00C2              *)
(*      "a_circ" U+00E2    "copyright" U+00A9 "low9quote" U+201A           *)
(*      "notsign" U+00AC   "O_acute" U+00D3   "E_acute" U+00C9             *)
(*      "i_acute" U+00ED   "u_acute" U+00FA                                *)
(*    calculator.py is stored with its non-ASCII literals double encoded   *)
(*    (the bytes of U+00F3 read as the two characters U+00C3 U+00B3, and   *)
(*    so on); the tables below hold the literals the interpreter sees.     *)
(*  - An Optional[x] is <<>> (Python None) or <<x>>.                       *)
(*  - A float is a decimal [mant, frac] standing for mant / 10^frac, kept  *)
(*    in lowest terms (no trailing zero in the fraction).                  *)
(*  - A dict is a function from the keys present to their values.          *)
(***************************************************************************)
EXTENDS Integers, Sequences, FiniteSets, TLC

VARIABLES
  emission_factors,  \* the rows of the emission_factors table
  op,                \* the function that was called last ("idle": none)
  args,              \* the arguments of that call
  ret,               \* what the call returned
  documents,         \* the rows of the documents table, by document id
  records,           \* the rows of the records table
  requests,          \* the runs of analyze_document and of
                     \* process_document_task in progress or just ended
  runs               \* the number of runs begun so far

vars == <<emission_factors, op, args, ret, documents, records, requests, runs>>

\* the tables and the runs of the document pipeline
pipeline == <<documents, records, requests, runs>>

\* no document, no record and no run: the state of the pipeline while a
\* function is called on its own
NoPipeline ==
  documents = <<>> /\ records = {} /\ requests = <<>> /\ runs = 0

---------------------------------------------------------------------------
(* Python values *)

None == <<>>

Some(x) == <<x>>

\* str.lower() on one character
LowerChar(c) ==
  CASE c = "A" -> "a" [] c = "B" -> "b" [] c = "C" -> "c" [] c = "D" -> "d"
    [] c = "E" -> "e" [] c = "F" -> "f" [] c = "G" -> "g" [] c = "H" -> "h"
    [] c = "I" -> "i" [] c = "J" -> "j" [] c = "K" -> "k" [] c = "L" -> "l"
    [] c = "M" -> "m" [] c = "N" -> "n" [] c = "O" -> "o" [] c = "P" -> "p"
    [] c = "Q" -> "q" [] c = "R" -> "r" [] c = "S" -> "s" [] c = "T" -> "t"
    [] c = "U" -> "u" [] c = "V" -> "v" [] c = "W" -> "w" [] c = "X" -> "x"
    [] c = "Y" -> "y" [] c = "Z" -> "z"
    [] c = "A_tilde" -> "a_tilde" [] c = "A_circ" -> "a_circ"
    [] c = "O_acute" -> "o_acute" [] c = "E_acute" -> "e_acute"
    [] OTHER -> c

\* str.lower()
Lower(s) == [i \in 1..Len(s) |-> LowerChar(s[i])]

\* the characters str.strip() removes
Whitespace == {" ", "\t", "\n", "\r"}

RECURSIVE LStrip(_)
LStrip(s) ==
  IF s # <<>> /\ Head(s) \in Whitespace THEN LStrip(Tail(s)) ELSE s

RECURSIVE RStrip(_)
RStrip(s) ==
  IF s # <<>> /\ s[Len(s)] \in Whitespace
    THEN RStrip(SubSeq(s, 1, Len(s) - 1))
    ELSE s

\* str.strip()
Strip(s) == RStrip(LStrip(s))

\* sub in s
Contains(sub, s) ==
  \E i \in 0..(Len(s) - Len(sub)) : SubSeq(s, i + 1, i + Len(sub)) = sub

\* dict.get(key, default)
Get(d, key, default) == IF key \in DOMAIN d THEN d[key] ELSE default

---------------------------------------------------------------------------
(* utils/calculator.py: the Category Resolver *)

electricity == <<"e","l","e","c","t","r","i","c","i","t","y">>

natural_gas == <<"n","a","t","u","r","a","l","_","g","a","s">>

diesel == <<"d","i","e","s","e","l">>

petrol == <<"p","e","t","r","o","l">>

freight_transport ==
  <<"f","r","e","i","g","h","t","_","t","r","a","n","s","p","o","r","t">>

purchased_goods ==
  <<"p","u","r","c","h","a","s","e","d","_","g","o","o","d","s">>

\* the list of the direct match in _normalize_category
StandardCategories ==
  {electricity, natural_gas, diesel, petrol, freight_transport,
   purchased_goods}

\* category_map of _normalize_category, as <<key, value>> pairs
category_map ==
  {
    <<<<"e","l","e","c","t","r","i","c","i","d","a","d">>, electricity>>,
    <<<<"e","l","e","c","t","r","i","c">>, electricity>>,
    <<<<"e","n","e","r","g","i","a">>, electricity>>,
    <<<<"l","u","z">>, electricity>>,
    <<<<"g","a","s">>, natural_gas>>,
    <<<<"g","a","s","_","n","a","t","u","r","a","l">>, natural_gas>>,
    <<<<"g","a","s","n","a","t","u","r","a","l">>, natural_gas>>,
    <<<<"g","a","s","o","l","e","o">>, diesel>>,
    <<<<"g","a","s","A_tilde","sup3","l","e","o">>, diesel>>,
    <<<<"g","a","s","o","i","l">>, diesel>>,
    <<<<"g","a","s","o","l","i","n","a">>, petrol>>,
    <<<<"p","e","t","r","o","l">>, petrol>>,
    <<<<"t","r","a","n","s","p","o","r","t","e">>, freight_transport>>,
    <<<<"f","l","e","t","e">>, freight_transport>>,
    <<<<"c","o","m","p","r","a","s">>, purchased_goods>>,
    <<<<"m","a","t","e","r","i","a","l","e","s">>, purchased_goods>>
  }

\* unit_map of _normalize_unit, as <<key, value>> pairs
unit_map ==
  {
    <<<<"k","w","h">>, <<"k","W","h">>>>,
    <<<<"m","w","h">>, <<"M","W","h">>>>,
    <<<<"m","3">>, <<"m","3">>>>,
    <<<<"m","A_circ","sup3">>, <<"m","3">>>>,
    <<<<"l">>, <<"L">>>>,
    <<<<"l","i","t","r","o">>, <<"L">>>>,
    <<<<"l","i","t","r","o","s">>, <<"L">>>>,
    <<<<"l","i","t","e","r">>, <<"L">>>>,
    <<<<"l","i","t","e","r","s">>, <<"L">>>>,
    <<<<"t","o","n","n","e","_","k","m">>, <<"t","o","n","n","e","_","k","m">>>>,
    <<<<"e","u","r">>, <<"E","U","R">>>>,
    <<<<"e","u","r","o">>, <<"E","U","R">>>>,
    <<<<"a_circ","low9quote","notsign">>, <<"E","U","R">>>>
  }

\* m.get(key): the value of key in a table of pairs, None when it has none
MapGet(m, key) ==
  IF \E p \in m : p[1] = key
    THEN Some((CHOOSE p \in m : p[1] = key)[2])
    ELSE None

\* the supplier substrings of the electricity rule of _infer_category
ElectricitySuppliers ==
  {<<"e","n","d","e","s","a">>,
   <<"i","b","e","r","d","r","o","l","a">>,
   <<"n","a","t","u","r","g","y">>,
   <<"e","l","A_tilde","copyright","c","t","r","i","c","a">>,
   <<"e","l","e","c","t","r","i","c">>}

\* the supplier substrings of the diesel rule of _infer_category
DieselSuppliers ==
  {<<"d","i","e","s","e","l">>,
   <<"g","a","s","A_tilde","sup3","l","e","o">>,
   <<"g","a","s","o","i","l">>}

\* _infer_category(unit, supplier): Optional[str]
_infer_category(unit, supplier) ==
  LET unit_lower == Strip(Lower(unit))
      supplier_lower == Lower(supplier)
  IN  IF unit_lower \in {<<"k","w","h">>, <<"m","w","h">>}
        THEN Some(electricity)
      ELSE IF \E s \in ElectricitySuppliers : Contains(s, supplier_lower)
        THEN Some(electricity)
      ELSE IF unit_lower \in {<<"m","3">>, <<"m","A_circ","sup3">>}
        THEN Some(natural_gas)
      ELSE IF Contains(<<"g","a","s">>, supplier_lower)
        THEN Some(natural_gas)
      ELSE IF unit_lower \in {<<"l">>, <<"l","i","t","r","o">>,
                              <<"l","i","t","e","r">>,
                              <<"l","i","t","r","o","s">>,
                              <<"l","i","t","e","r","s">>}
        THEN IF \E s \in DieselSuppliers : Contains(s, supplier_lower)
               THEN Some(diesel)
               ELSE Some(petrol)
      ELSE IF Contains(<<"k","m">>, unit_lower)
              \/ Contains(<<"t","o","n","n","e">>, unit_lower)
        THEN Some(freight_transport)
      ELSE IF unit_lower \in {<<"e","u","r">>, <<"e","u","r","o">>,
                              <<"a_circ","low9quote","notsign">>,
                              <<"u","s","d">>,
                              <<"d","o","l","l","a","r">>}
        THEN Some(purchased_goods)
      ELSE None

\* the truth value of an Optional[str]: None and '' are false
TruthyStr(o) == o # None /\ o[1] # <<>>

\* _normalize_category without its direct match of the standard names
_normalize_category_no_direct(category, unit, supplier) ==
  IF ~TruthyStr(category)
    THEN _infer_category(unit, supplier)
    ELSE MapGet(category_map, Strip(Lower(category[1])))

\* _normalize_category(category, unit, supplier): Optional[str];
\* category is an Optional[str]
_normalize_category(category, unit, supplier) ==
  IF ~TruthyStr(category)
    THEN _infer_category(unit, supplier)
    ELSE LET category_lower == Strip(Lower(category[1]))
         IN  IF category_lower \in StandardCategories
               THEN Some(category_lower)
               ELSE MapGet(category_map, category_lower)

\* _normalize_unit that returns the lowered, trimmed unit when the table
\* does not have it
_normalize_unit_lowered(unit) ==
  LET unit_lower == Strip(Lower(unit))
      hit == MapGet(unit_map, unit_lower)
  IN  IF hit # None THEN hit[1] ELSE unit_lower

\* _normalize_unit(unit): str
_normalize_unit(unit) ==
  LET unit_lower == Strip(Lower(unit))
      hit == MapGet(unit_map, unit_lower)
  IN  IF hit # None THEN hit[1] ELSE unit

\* _determine_scope with every category in scope 3, its default
_determine_scope_default(category) == 3

\* _determine_scope(category): scope_map.get(category, 3)
_determine_scope(category) ==
  IF category \in {natural_gas, diesel, petrol} THEN 1
  ELSE IF category = electricity THEN 2
  ELSE IF category \in {freight_transport, purchased_goods} THEN 3
  ELSE 3

---------------------------------------------------------------------------
(* The inputs the calls are drawn from *)

\* raw category strings (Optional[str]): absent, empty, the canonical names,
\* spellings in other case or padded, Spanish synonyms, unknown words
SampleCategories ==
  {None,
   Some(<<>>),
   Some(<<"e","l","e","c","t","r","i","c","i","t","y">>),
   Some(<<"n","a","t","u","r","a","l","_","g","a","s">>),
   Some(<<"d","i","e","s","e","l">>),
   Some(<<"p","e","t","r","o","l">>),
   Some(<<"f","r","e","i","g","h","t","_","t","r","a","n","s","p","o","r","t">>),
   Some(<<"p","u","r","c","h","a","s","e","d","_","g","o","o","d","s">>),
   Some(<<"E","l","e","c","t","r","i","c","i","t","y">>),
   Some(<<" ","D","I","E","S","E","L"," ">>),
   Some(<<"e","l","e","c","t","r","i","c","i","d","a","d">>),
   Some(<<"E","l","e","c","t","r","i","c","i","d","a","d"," ">>),
   Some(<<"g","a","s","o_acute","l","e","o">>),
   Some(<<"G","a","s","o_acute","l","e","o">>),
   Some(<<"g","a","s","o","l","e","o">>),
   Some(<<"g","a","s">>),
   Some(<<"l","u","z">>),
   Some(<<"f","l","e","t","e">>),
   Some(<<"c","o","m","p","r","a","s">>),
   Some(<<"g","a","s","o","l","i","n","a">>),
   Some(<<"w","a","t","e","r">>),
   Some(<<" "," ">>)}

\* unit strings
SampleUnits ==
  {<<"k","W","h">>,
   <<"k","w","h">>,
   <<" ","M","W","h"," ">>,
   <<"m","3">>,
   <<"m","sup3">>,
   <<"M","sup3">>,
   <<"L">>,
   <<"l","i","t","r","o","s">>,
   <<"t","o","n","n","e","_","k","m">>,
   <<"k","m">>,
   <<"E","U","R">>,
   <<"euro">>,
   <<"u","s","d">>,
   <<"x","y","z">>,
   <<"l","i","t","r","o">>,
   <<" ","L","i","t","r","o"," ">>,
   <<"K","W","H">>,
   <<" ","U","S","D"," ">>,
   <<>>}

\* supplier strings
SampleSuppliers ==
  {<<>>,
   <<"E","n","d","e","s","a">>,
   <<"I","b","e","r","d","r","o","l","a">>,
   <<"G","a","s"," ","N","a","t","u","r","a","l">>,
   <<"R","e","p","s","o","l"," ","D","i","e","s","e","l">>,
   <<"E","l","e_acute","c","t","r","i","c","a"," ","S","u","r">>,
   <<"E","l","e","c","t","r","i","c"," ","P","o","w","e","r">>,
   <<"A","c","m","e">>}

---------------------------------------------------------------------------
(* The calls *)

\* no call is in progress
Idle == op = "idle" /\ args = <<>> /\ ret = <<>>

\* the caller takes the result: the next call may start
Return ==
  /\ op # "idle"
  /\ op' = "idle"
  /\ args' = <<>>
  /\ ret' = <<>>
  /\ UNCHANGED <<emission_factors, pipeline>>

\* a call of _normalize_category
Call_normalize_category ==
  /\ op = "idle"
  /\ \E c \in SampleCategories, u \in SampleUnits, s \in SampleSuppliers :
       /\ args' = [category |-> c, unit |-> u, supplier |-> s]
       /\ ret' = _normalize_category(c, u, s)
  /\ op' = "_normalize_category"
  /\ UNCHANGED <<emission_factors, pipeline>>

\* a call of _normalize_unit
Call_normalize_unit ==
  /\ op = "idle"
  /\ \E u \in SampleUnits :
       /\ args' = [unit |-> u]
       /\ ret' = _normalize_unit(u)
  /\ op' = "_normalize_unit"
  /\ UNCHANGED <<emission_factors, pipeline>>

InitCategory == emission_factors = {} /\ Idle /\ NoPipeline

NextCategory == Call_normalize_category \/ Call_normalize_unit \/ Return

\* the Category Resolver called on any of the sample inputs
SpecCategory == InitCategory /\ [][NextCategory]_vars

---------------------------------------------------------------------------
(* Properties of the Category Resolver (under SpecCategory) *)

\* the closed set of canonical categories of the specification
CanonicalCategories ==
  {<<"e","l","e","c","t","r","i","c","i","t","y">>,
   <<"n","a","t","u","r","a","l","_","g","a","s">>,
   <<"d","i","e","s","e","l">>,
   <<"p","e","t","r","o","l">>,
   <<"f","r","e","i","g","h","t","_","t","r","a","n","s","p","o","r","t">>,
   <<"p","u","r","c","h","a","s","e","d","_","g","o","o","d","s">>}

\* C7: category resolution is idempotent.  A canonical category is returned
\* unchanged whatever the unit and the supplier, and whatever value
\* _normalize_category returns (for a raw string or by inference) is returned
\* unchanged when it is resolved again, with any unit and supplier.
C7_Idempotent ==
  op = "_normalize_category" =>
    /\ (args.category # None /\ args.category[1] \in CanonicalCategories)
         => ret = args.category
    /\ ret # None =>
         \A u \in SampleUnits, s \in SampleSuppliers :
           _normalize_category(ret, u, s) = ret

\* C7 witness: a raw string that is not canonical ("Electricidad ") resolved
\* to a value
C7_Witness ==
  /\ op = "_normalize_category"
  /\ args.category
       = Some(<<"E","l","e","c","t","r","i","c","i","d","a","d"," ">>)
  /\ ret = Some(<<"e","l","e","c","t","r","i","c","i","t","y">>)

\* the Spanish-to-canonical synonym table as the specification reads it:
\* the keys of category_map, "gas" "o_acute" "leo" written in Unicode
SpanishSynonyms ==
  {p \in category_map : ~Contains(<<"A_tilde">>, p[1])}
    \cup {<< <<"g","a","s","o_acute","l","e","o">>,
             <<"d","i","e","s","e","l">> >>}

\* C8 (as claimed): a present raw category is lower-cased and trimmed; a
\* canonical name is returned as it is, any other string is looked up in the
\* synonym table ("electricidad" gives electricity, "gas" "o_acute" "leo"
\* gives diesel), and a string in neither gives None; unit and supplier are
\* never consulted.
C8_PresentRawAsClaimed ==
  (op = "_normalize_category" /\ TruthyStr(args.category)) =>
    LET r == Strip(Lower(args.category[1]))
    IN  /\ r \in CanonicalCategories => ret = Some(r)
        /\ r = <<"e","l","e","c","t","r","i","c","i","d","a","d">>
             => ret = Some(<<"e","l","e","c","t","r","i","c","i","t","y">>)
        /\ r = <<"g","a","s","o_acute","l","e","o">>
             => ret = Some(<<"d","i","e","s","e","l">>)
        /\ (r \notin CanonicalCategories /\ \E p \in SpanishSynonyms : p[1] = r)
             => ret = MapGet(SpanishSynonyms, r)
        /\ (r \notin CanonicalCategories /\ \A p \in SpanishSynonyms : p[1] # r)
             => ret = None

\* the inference rules as the specification lists them, first match first
ClaimedInference(unit, supplier) ==
  LET u == Strip(Lower(unit))
      s == Lower(supplier)
      brands == {<<"e","n","d","e","s","a">>,
                 <<"i","b","e","r","d","r","o","l","a">>,
                 <<"n","a","t","u","r","g","y">>,
                 <<"e","l","e_acute","c","t","r","i","c","a">>,
                 <<"e","l","e","c","t","r","i","c">>}
      liters == {<<"l">>, <<"l","i","t","r","o">>, <<"l","i","t","e","r">>,
                 <<"l","i","t","r","o","s">>, <<"l","i","t","e","r","s">>}
      currencies == {<<"e","u","r">>, <<"e","u","r","o">>, <<"euro">>,
                     <<"u","s","d">>, <<"d","o","l","l","a","r">>}
  IN  IF u \in {<<"k","w","h">>, <<"m","w","h">>}
        THEN Some(<<"e","l","e","c","t","r","i","c","i","t","y">>)
      ELSE IF \E b \in brands : Contains(b, s)
        THEN Some(<<"e","l","e","c","t","r","i","c","i","t","y">>)
      ELSE IF u \in {<<"m","sup3">>, <<"m","3">>} \/ Contains(<<"g","a","s">>, s)
        THEN Some(<<"n","a","t","u","r","a","l","_","g","a","s">>)
      ELSE IF u \in liters
        THEN IF Contains(<<"d","i","e","s","e","l">>, s)
                \/ Contains(<<"g","a","s","o_acute","l","e","o">>, s)
               THEN Some(<<"d","i","e","s","e","l">>)
               ELSE Some(<<"p","e","t","r","o","l">>)
      ELSE IF Contains(<<"k","m">>, u) \/ Contains(<<"t","o","n","n","e">>, u)
        THEN Some(<<"f","r","e","i","g","h","t","_","t","r","a","n","s","p","o","r","t">>)
      ELSE IF u \in currencies
        THEN Some(<<"p","u","r","c","h","a","s","e","d","_","g","o","o","d","s">>)
      ELSE None

\* C9 (as claimed): with the raw category absent the category is the one of
\* the first matching rule: unit kWh/MWh, electricity; supplier with an
\* electricity brand, electricity; unit m3 or m "sup3", or supplier with
\* "gas", natural_gas; a liter unit, diesel or petrol by the supplier; unit
\* with "km" or "tonne", freight_transport; a currency unit (EUR, USD, the
\* euro sign), purchased_goods; otherwise None.
C9_InferenceAsClaimed ==
  (op = "_normalize_category" /\ args.category = None) =>
    ret = ClaimedInference(args.unit, args.supplier)

---------------------------------------------------------------------------
(* utils/parser.py: the Locale Normalizer *)

\* the outcome of a call: it returned value, or it raised an exception
Returned(value) == [raises |-> FALSE, value |-> value]

Raised == [raises |-> TRUE, value |-> None]

Digits == {"0", "1", "2", "3", "4", "5", "6", "7", "8", "9"}

\* int() of one digit
DigitVal(c) ==
  CASE c = "0" -> 0 [] c = "1" -> 1 [] c = "2" -> 2 [] c = "3" -> 3
    [] c = "4" -> 4 [] c = "5" -> 5 [] c = "6" -> 6 [] c = "7" -> 7
    [] c = "8" -> 8 [] c = "9" -> 9

\* int() of a string of digits ('' counts 0)
RECURSIVE IntOfDigits(_)
IntOfDigits(s) ==
  IF s = <<>> THEN 0
  ELSE 10 * IntOfDigits(SubSeq(s, 1, Len(s) - 1)) + DigitVal(s[Len(s)])

\* the float mant / 10^frac in lowest terms
RECURSIVE Float(_, _)
Float(mant, frac) ==
  IF frac > 0 /\ mant % 10 = 0
    THEN Float(mant \div 10, frac - 1)
    ELSE [mant |-> mant, frac |-> frac]

\* str.replace(old, new) for a one-character old and a string new
RECURSIVE Replace(_, _, _)
Replace(s, old, new) ==
  IF s = <<>> THEN <<>>
  ELSE (IF Head(s) = old THEN new ELSE <<Head(s)>>)
         \o Replace(Tail(s), old, new)

IsNumeric(c) == c \in Digits \cup {".", "-"}

\* re.sub(r'[^\d.-]', '', s)
RemoveNonNumeric(s) == SelectSeq(s, IsNumeric)

IsDigit(c) == c \in Digits

IsDot(c) == c = "."

\* float(s) for a string s of digits, '.' and '-': the outcome is Raised
\* (ValueError) unless s is an optional '-', then digits with at most one '.'
\* and at least one digit
float(s) ==
  LET neg == s # <<>> /\ Head(s) = "-"
      body == IF neg THEN Tail(s) ELSE s
      digits == SelectSeq(body, IsDigit)
      dot == IF \E i \in 1..Len(body) : body[i] = "."
               THEN CHOOSE i \in 1..Len(body) : body[i] = "."
               ELSE Len(body) + 1
  IN  IF \/ \E i \in 1..Len(body) : body[i] = "-"
         \/ Len(SelectSeq(body, IsDot)) > 1
         \/ digits = <<>>
        THEN Raised
        ELSE Returned(Some(Float((IF neg THEN -1 ELSE 1) * IntOfDigits(digits),
                                 Len(body) + 1 - dot
                                   - (IF dot <= Len(body) THEN 1 ELSE 0))))

\* the try block of _parse_number; value is [type |-> "float", v |-> a float]
\* (an int or a float cell) or [type |-> "str", v |-> a string]
parse_number_try(value) ==
  IF value.type = "float"
    THEN Returned(Some(value.v))
    ELSE LET stripped == Strip(value.v)
             swapped == Replace(Replace(stripped, ".", <<>>), ",", <<".">>)
             value_str == RemoveNonNumeric(swapped)
         IN  IF value_str # <<>> THEN float(value_str) ELSE Returned(None)

\* _parse_number without its except clause: what float() raises escapes
_parse_number_no_except(value) == parse_number_try(value)

\* _parse_number(value): the outcome of the call; the bare except turns
\* whatever the try block raises into None
_parse_number(value) ==
  IF parse_number_try(value).raises
    THEN Returned(None)
    ELSE parse_number_try(value)

\* the formats without the last one, DD.MM.YYYY
DateFormats_without_dots ==
  << <<"%d", "/", "%m", "/", "%Y">>,
     <<"%Y", "-", "%m", "-", "%d">>,
     <<"%d", "-", "%m", "-", "%Y">> >>

\* the formats _parse_date_value tries, in its order; a format is
\* <<directive, separator, directive, separator, directive>>
DateFormats ==
  << <<"%d", "/", "%m", "/", "%Y">>,
     <<"%Y", "-", "%m", "-", "%d">>,
     <<"%d", "-", "%m", "-", "%Y">>,
     <<"%d", ".", "%m", ".", "%Y">> >>

\* str.split(sep): the fields of s between the occurrences of sep
RECURSIVE Split(_, _)
Split(s, sep) ==
  IF \E i \in 1..Len(s) : s[i] = sep
    THEN LET i == CHOOSE i \in 1..Len(s) :
                    s[i] = sep /\ \A j \in 1..(i - 1) : s[j] # sep
         IN  <<SubSeq(s, 1, i - 1)>> \o Split(SubSeq(s, i + 1, Len(s)), sep)
    ELSE <<s>>

AllDigits(f) == \A i \in 1..Len(f) : f[i] \in Digits

\* whether the field f matches the regular expression strptime uses for
\* the directive: %d 3[0-1]|[1-2]\d|0[1-9]|[1-9]| [1-9],
\* %m 1[0-2]|0[1-9]|[1-9], %Y \d\d\d\d
DirectiveMatches(directive, f) ==
  CASE directive = "%d" ->
         \/ Len(f) = 1 /\ AllDigits(f) /\ IntOfDigits(f) >= 1
         \/ Len(f) = 2 /\ AllDigits(f) /\ IntOfDigits(f) \in 1..31
         \/ Len(f) = 2 /\ f[1] = " " /\ f[2] \in Digits \ {"0"}
    [] directive = "%m" ->
         \/ Len(f) = 1 /\ AllDigits(f) /\ IntOfDigits(f) >= 1
         \/ Len(f) = 2 /\ AllDigits(f) /\ IntOfDigits(f) \in 1..12
    [] directive = "%Y" -> Len(f) = 4 /\ AllDigits(f)

\* calendar.monthrange: the days of a month
DaysInMonth(year, month) ==
  IF month = 2
    THEN IF year % 4 = 0 /\ (year % 100 # 0 \/ year % 400 = 0)
           THEN 29 ELSE 28
    ELSE IF month \in {4, 6, 9, 11} THEN 30 ELSE 31

\* datetime.strptime(date_str, fmt).date(): Raised (ValueError) unless the
\* whole of date_str matches fmt and names a day of the calendar
strptime(date_str, fmt) ==
  LET fields == Split(date_str, fmt[2])
      Field(directive) ==
        IntOfDigits(SelectSeq(
          fields[CHOOSE k \in 1..3 : fmt[2 * k - 1] = directive], IsDigit))
  IN  IF /\ fmt[4] = fmt[2]
         /\ Len(fields) = 3
         /\ \A k \in 1..3 : DirectiveMatches(fmt[2 * k - 1], fields[k])
         /\ Field("%Y") >= 1
         /\ Field("%d") <= DaysInMonth(Field("%Y"), Field("%m"))
        THEN Returned([year |-> Field("%Y"), month |-> Field("%m"),
                       day |-> Field("%d")])
        ELSE Raised

\* the loop of _parse_date_value from the i-th format on: the first format
\* that parses date_str decides, None when none does
RECURSIVE TryFormats(_, _)
TryFormats(date_str, i) ==
  IF i > Len(DateFormats) THEN None
  ELSE IF strptime(date_str, DateFormats[i]).raises
    THEN TryFormats(date_str, i + 1)
    ELSE Some(strptime(date_str, DateFormats[i]).value)

\* _parse_date_value(value): the outcome of the call; value is
\* [type |-> "datetime", v |-> [year, month, day, hour]] (a spreadsheet
\* date cell) or [type |-> "str", v |-> a string]
_parse_date_value(value) ==
  IF value.type = "datetime"
    THEN Returned(Some([year |-> value.v.year, month |-> value.v.month,
                        day |-> value.v.day]))
    ELSE Returned(TryFormats(Strip(value.v), 1))

---------------------------------------------------------------------------
(* utils/parser.py: the rows of the Structured-Source Parser *)

\* _infer_category(supplier, unit) of parser.py: str
parser_infer_category(supplier, unit) ==
  LET supplier_lower == Lower(supplier)
      unit_lower == Lower(unit)
  IN  IF \/ Contains(<<"k","w","h">>, unit_lower)
         \/ \E b \in {<<"e","n","d","e","s","a">>,
                      <<"i","b","e","r","d","r","o","l","a">>,
                      <<"n","a","t","u","r","g","y">>,
                      <<"e","l","e_acute","c","t","r","i","c","a">>} :
              Contains(b, supplier_lower)
        THEN electricity
      ELSE IF \/ Contains(<<"m","3">>, unit_lower)
              \/ Contains(<<"m","sup3">>, unit_lower)
              \/ Contains(<<"g","a","s">>, supplier_lower)
        THEN natural_gas
      ELSE IF unit_lower = <<"l">>
              \/ Contains(<<"l","i","t","r","o">>, unit_lower)
        THEN IF \/ Contains(<<"d","i","e","s","e","l">>, supplier_lower)
                \/ Contains(<<"g","a","s","o_acute","l","e","o">>,
                            supplier_lower)
               THEN diesel
               ELSE petrol
      ELSE IF \/ Contains(<<"t","o","n","n","e">>, unit_lower)
              \/ Contains(<<"t","o","n">>, unit_lower)
              \/ Contains(<<"k","m">>, unit_lower)
        THEN freight_transport
      ELSE purchased_goods

\* row.get(original_col) for the column mapped to standard_col: None when no
\* column is mapped to it or the row has no such cell.  column_map is the
\* dict of _map_columns: no two columns have the same standard name.
CellOf(row, column_map, standard_col) ==
  IF \E h \in DOMAIN column_map : column_map[h] = standard_col
    THEN Get(row,
             CHOOSE h \in DOMAIN column_map : column_map[h] = standard_col,
             None)
    ELSE None

\* the standard columns whose cell passes "value is not None and value != ''"
FilledColumns(row, column_map) ==
  {c \in {column_map[h] : h \in DOMAIN column_map} :
     /\ CellOf(row, column_map, c) # None
     /\ CellOf(row, column_map, c)[1] # [type |-> "str", v |-> <<>>]}

\* what the loop of _extract_record_from_row stores for one filled column:
\* the outcome of the conversion of the cell (str(value) of a text cell is
\* the string itself)
ConvertCell(standard_col, value) ==
  IF standard_col \in {"usage", "cost"} THEN _parse_number(value)
  ELSE IF standard_col = "date" THEN _parse_date_value(value)
  ELSE Returned(Some(Strip(value.v)))

\* _extract_record_from_row(row, column_map): the outcome of the call, an
\* Optional[dict]; every value of the dict is an Optional
_extract_record_from_row(row, column_map) ==
  LET filled == FilledColumns(row, column_map)
      converted == [c \in filled |->
                      ConvertCell(c, CellOf(row, column_map, c)[1])]
      record == [c \in filled |-> converted[c].value]
      inferred ==
        IF "category" \notin filled /\ {"supplier", "unit"} \subseteq filled
          THEN ("category" :>
                  Some(parser_infer_category(record["supplier"][1],
                                             record["unit"][1]))) @@ record
          ELSE record
  IN  IF \E c \in filled : converted[c].raises
        THEN Returned(None)
      ELSE IF "usage" \in DOMAIN inferred \/ "cost" \in DOMAIN inferred
        THEN Returned(Some(inferred))
      ELSE Returned(None)

---------------------------------------------------------------------------
(* The inputs and the calls of the Locale Normalizer and the row parser *)

\* the longest generated number string
MaxNumberLen == 3

NumberAlphabet == {"0", "1", "5", ".", ",", "-", " ", "euro"}

\* the number strings of the specification and of the invoices
ExampleNumbers ==
  {<<"1",".","2","3","4",",","5","6">>,
   <<"1","2","3","4",".","5","6">>,
   <<"4","5",",","2","0","euro">>,
   <<"1","5","0","0">>,
   <<"-","1","2",",","5">>,
   <<"1","2",".","5","0">>,
   <<"1",",","2",",","3">>}

\* the values _parse_number is called on: every string over NumberAlphabet
\* up to MaxNumberLen characters, the examples, and numeric cells
SampleNumbers ==
  {[type |-> "str", v |-> x] :
     x \in UNION {[1..k -> NumberAlphabet] : k \in 0..MaxNumberLen}
             \cup ExampleNumbers}
    \cup {[type |-> "float", v |-> Float(1500, 0)],
          [type |-> "float", v |-> Float(125, 1)]}

DaySamples == {<<"1">>, <<"1","5">>, <<"2","9">>, <<"3","0">>, <<"3","1">>, <<"0">>, <<"3","2">>}

MonthSamples == {<<"2">>, <<"0","2">>, <<"0","3">>, <<"4">>, <<"1","2">>, <<"1","3">>}

YearSamples == {<<"2","0","2","4">>, <<"2","0","2","3">>, <<"2","4">>, <<"0","0","0","0">>}

\* the values _parse_date_value is called on: day, month and year strings
\* joined by '/', '-' or '.' in either order, padded or not, other text, and
\* a spreadsheet date cell
SampleDates ==
  {[type |-> "str", v |-> x] :
     x \in {d \o <<sep>> \o m \o <<sep>> \o y :
              d \in DaySamples, m \in MonthSamples, y \in YearSamples,
              sep \in {"/", "-", "."}}
           \cup {y \o <<sep>> \o m \o <<sep>> \o d :
              d \in DaySamples, m \in MonthSamples, y \in YearSamples,
              sep \in {"/", "-", "."}}
           \cup {<<"n","o","t","-","a","-","d","a","t","e">>,
                 <<>>,
                 <<" ","1","5","/","0","3","/","2","0","2","4"," ">>,
                 <<"1","5","/","0","3","-","2","0","2","4">>,
                 <<"1","5","/","0","3","/","2","0","2","4"," ","1","0",":","0","0">>,
                 <<"2","0","2","4","-","0","3","-"," ","5">>,
                 <<"1","5","-","0","3","-","2","0","2","4","5">>}}
    \cup {[type |-> "datetime",
           v |-> [year |-> 2024, month |-> 3, day |-> 15, hour |-> 10]]}

\* the headers of the sample rows
SampleHeaders ==
  <<<<"f","e","c","h","a">>,
    <<"p","r","o","v","e","e","d","o","r">>,
    <<"c","o","n","s","u","m","o">>,
    <<"u","n","i","d","a","d">>,
    <<"i","m","p","o","r","t","e">>,
    <<"t","i","p","o">>>>

\* the column map _map_columns gives for SampleHeaders
SampleColumnMap ==
  (SampleHeaders[1] :> "date")
    @@ (SampleHeaders[2] :> "supplier")
    @@ (SampleHeaders[3] :> "usage")
    @@ (SampleHeaders[4] :> "unit")
    @@ (SampleHeaders[5] :> "cost")
    @@ (SampleHeaders[6] :> "category")

\* the cells a row may hold in each column of SampleHeaders (None: the row
\* has no such cell)
SampleCells ==
  << {None,
      Some([type |-> "str", v |-> <<"1","5","/","0","3","/","2","0","2","4">>]),
      Some([type |-> "str", v |-> <<"n","o","t","-","a","-","d","a","t","e">>]),
      Some([type |-> "datetime",
            v |-> [year |-> 2024, month |-> 3, day |-> 15, hour |-> 10]])},
     {None,
      Some([type |-> "str", v |-> <<" ","E","n","d","e","s","a"," ">>]),
      Some([type |-> "str", v |-> <<"R","e","p","s","o","l">>])},
     {None,
      Some([type |-> "str", v |-> <<>>]),
      Some([type |-> "str", v |-> <<"1","5","0","0">>]),
      Some([type |-> "str", v |-> <<"a","b","c">>]),
      Some([type |-> "str", v |-> <<"1",".","2","3","4",",","5","6">>]),
      Some([type |-> "float", v |-> Float(125, 1)])},
     {None,
      Some([type |-> "str", v |-> <<"k","W","h">>]),
      Some([type |-> "str", v |-> <<"L">>]),
      Some([type |-> "str", v |-> <<"u","d","s">>])},
     {None,
      Some([type |-> "str", v |-> <<"4","5",",","2","0","euro">>]),
      Some([type |-> "str", v |-> <<"-">>])},
     {None,
      Some([type |-> "str", v |-> <<"G","a","s">>])} >>

\* the row dict of a choice of cells, one per column: the absent cells are
\* left out
RowOf(cells) ==
  [h \in {SampleHeaders[k] : k \in {j \in 1..6 : cells[j] # None}} |->
     cells[CHOOSE k \in 1..6 : SampleHeaders[k] = h]]

SampleRows ==
  {RowOf(<<c1, c2, c3, c4, c5, c6>>) :
     c1 \in SampleCells[1], c2 \in SampleCells[2], c3 \in SampleCells[3],
     c4 \in SampleCells[4], c5 \in SampleCells[5], c6 \in SampleCells[6]}

\* a call of _parse_number
Call_parse_number ==
  /\ op = "idle"
  /\ \E value \in SampleNumbers :
       /\ args' = [value |-> value]
       /\ ret' = _parse_number(value)
  /\ op' = "_parse_number"
  /\ UNCHANGED <<emission_factors, pipeline>>

\* a call of _parse_date_value
Call_parse_date_value ==
  /\ op = "idle"
  /\ \E value \in SampleDates :
       /\ args' = [value |-> value]
       /\ ret' = _parse_date_value(value)
  /\ op' = "_parse_date_value"
  /\ UNCHANGED <<emission_factors, pipeline>>

\* a call of _extract_record_from_row
Call_extract_record_from_row ==
  /\ op = "idle"
  /\ \E row \in SampleRows :
       /\ args' = [row |-> row, column_map |-> SampleColumnMap]
       /\ ret' = _extract_record_from_row(row, SampleColumnMap)
  /\ op' = "_extract_record_from_row"
  /\ UNCHANGED <<emission_factors, pipeline>>

InitLocale == emission_factors = {} /\ Idle /\ NoPipeline

NextLocale ==
  \/ Call_parse_number
  \/ Call_parse_date_value
  \/ Call_extract_record_from_row
  \/ Return

\* the Locale Normalizer and the row parser called on any of the samples
SpecLocale == InitLocale /\ [][NextLocale]_vars

---------------------------------------------------------------------------
(* utils/parser.py: the Column Mapper *)

\* COLUMN_SYNONYMS, in the order of the dict; each list in its order
COLUMN_SYNONYMS ==
  <<
    [name |-> "date",
     synonyms |->
       <<<<"d","a","t","e">>,
        <<"f","e","c","h","a">>,
        <<"d","a","t","e","_","i","n","v","o","i","c","e">>,
        <<"i","n","v","o","i","c","e","_","d","a","t","e">>,
        <<"f","e","c","h","a","_","f","a","c","t","u","r","a">>>>],
    [name |-> "supplier",
     synonyms |->
       <<<<"s","u","p","p","l","i","e","r">>,
        <<"p","r","o","v","e","e","d","o","r">>,
        <<"v","e","n","d","o","r">>,
        <<"e","m","p","r","e","s","a">>,
        <<"c","o","m","p","a","n","y">>>>],
    [name |-> "category",
     synonyms |->
       <<<<"c","a","t","e","g","o","r","y">>,
        <<"c","a","t","e","g","o","r","i","a">>,
        <<"t","i","p","o">>,
        <<"t","y","p","e">>,
        <<"c","o","n","c","e","p","t">>,
        <<"c","o","n","c","e","p","t","o">>>>],
    [name |-> "usage",
     synonyms |->
       <<<<"u","s","a","g","e">>,
        <<"c","o","n","s","u","m","o">>,
        <<"c","o","n","s","u","m","p","t","i","o","n">>,
        <<"q","u","a","n","t","i","t","y">>,
        <<"c","a","n","t","i","d","a","d">>,
        <<"a","m","o","u","n","t">>>>],
    [name |-> "unit",
     synonyms |->
       <<<<"u","n","i","t">>,
        <<"u","n","i","d","a","d">>,
        <<"u","n","i","t","s">>,
        <<"u","o","m">>>>],
    [name |-> "cost",
     synonyms |->
       <<<<"c","o","s","t">>,
        <<"c","o","s","t","e">>,
        <<"i","m","p","o","r","t","e">>,
        <<"t","o","t","a","l">>,
        <<"a","m","o","u","n","t">>,
        <<"p","r","e","c","i","o">>,
        <<"p","r","i","c","e">>>>],
    [name |-> "invoice_number",
     synonyms |->
       <<<<"i","n","v","o","i","c","e">>,
        <<"i","n","v","o","i","c","e","_","n","u","m","b","e","r">>,
        <<"f","a","c","t","u","r","a">>,
        <<"n","u","m","e","r","o","_","f","a","c","t","u","r","a">>,
        <<"n","_","f","a","c","t","u","r","a">>>>],
    [name |-> "notes",
     synonyms |->
       <<<<"n","o","t","e","s">>,
        <<"o","b","s","e","r","v","a","c","i","o","n","e","s">>,
        <<"c","o","m","m","e","n","t","s">>,
        <<"c","o","m","e","n","t","a","r","i","o","s">>,
        <<"d","e","s","c","r","i","p","t","i","o","n">>>>]
  >>

\* x in list
InList(x, list) == \E k \in DOMAIN list : list[k] = x

\* the first header of headers[i..] that is not empty and whose lower-cased,
\* trimmed text is in synonyms: <<header>>, or <<>> if there is none.  A
\* header None (an empty spreadsheet cell) is skipped as an empty one is.
RECURSIVE FirstMatch(_, _, _)
FirstMatch(headers, i, synonyms) ==
  IF i > Len(headers) THEN <<>>
  ELSE IF headers[i] # <<>> /\ InList(Strip(Lower(headers[i])), synonyms)
    THEN <<headers[i]>>
  ELSE FirstMatch(headers, i + 1, synonyms)

\* column_map after the turns k.. of the loop over COLUMN_SYNONYMS.items();
\* column_map[header] = standard_name replaces what the key held
RECURSIVE MapFrom(_, _, _)
MapFrom(headers, k, column_map) ==
  IF k > Len(COLUMN_SYNONYMS) THEN column_map
  ELSE LET hit == FirstMatch(headers, 1, COLUMN_SYNONYMS[k].synonyms)
       IN  MapFrom(headers, k + 1,
                   IF hit = <<>>
                     THEN column_map
                     ELSE (hit[1] :> COLUMN_SYNONYMS[k].name) @@ column_map)

\* _map_columns(headers): the dict from header to standard name
_map_columns(headers) == MapFrom(headers, 1, <<>>)

\* the longest header row
MaxHeaders == 3

\* the headers the header rows are made of
HeaderSamples ==
  {<<"f","e","c","h","a">>,
   <<"F","e","c","h","a"," ">>,
   <<"c","o","n","s","u","m","o">>,
   <<"a","m","o","u","n","t">>,
   <<"t","o","t","a","l">>,
   <<"A","m","o","u","n","t">>,
   <<"f","o","o">>,
   <<>>}

\* the header rows
SampleHeaderRows ==
  UNION {[1..n -> HeaderSamples] : n \in 0..MaxHeaders}

Call_map_columns ==
  /\ op = "idle"
  /\ \E headers \in SampleHeaderRows :
       /\ args' = [headers |-> headers]
       /\ ret' = _map_columns(headers)
  /\ op' = "_map_columns"
  /\ UNCHANGED <<emission_factors, pipeline>>

InitColumns == emission_factors = {} /\ Idle /\ NoPipeline

NextColumns == Call_map_columns \/ Return

\* the Column Mapper called on any sample header row
SpecColumns == InitColumns /\ [][NextColumns]_vars

---------------------------------------------------------------------------
(* utils/parser.py: parse_csv *)

\* A CSV file is the sequence of its lines, each a string without its line
\* end; the files are shorter than the 1024 characters the delimiter is
\* detected on, and hold no quoted field.

\* delimiter = ',' if ',' in sample else ';'
Delimiter(lines) ==
  IF \E k \in DOMAIN lines : Contains(<<",">>, lines[k]) THEN "," ELSE ";"

\* the dict csv.DictReader makes of a line: the fields of the line under the
\* fieldnames, in order; a fieldname the line has no field for holds None
\* (restval), as an absent cell does
DictRow(fieldnames, line, delimiter) ==
  LET fields == Split(line, delimiter)
      filled == {k \in DOMAIN fieldnames : k <= Len(fields)}
  IN  [h \in {fieldnames[k] : k \in filled} |->
         Some([type |-> "str",
               v |-> fields[CHOOSE k \in filled :
                              /\ fieldnames[k] = h
                              /\ \A j \in filled :
                                   fieldnames[j] = h => j <= k]])]

\* the records of the lines k.. of the file: the loop of lines 54-57;
\* DictReader skips an empty line
RECURSIVE RecordsFrom(_, _, _, _)
RecordsFrom(lines, k, fieldnames, column_map) ==
  IF k > Len(lines) THEN <<>>
  ELSE LET record ==
             _extract_record_from_row(
               DictRow(fieldnames, lines[k], Delimiter(lines)), column_map)
           rest == RecordsFrom(lines, k + 1, fieldnames, column_map)
       IN  IF lines[k] = <<>> \/ record.value = None
             THEN rest
             ELSE <<record.value[1]>> \o rest

\* parse_csv(file_path): the list of records; a file without a line has
\* no fieldnames, _map_columns(None) raises and the except clause of line
\* 62 returns []
parse_csv(lines) ==
  IF lines = <<>> THEN <<>>
  ELSE LET fieldnames == Split(lines[1], Delimiter(lines))
       IN  RecordsFrom(lines, 2, fieldnames, _map_columns(fieldnames))

\* the most data lines of a file
MaxCsvRows == 2

\* the header lines and the data lines the files are made of
CsvHeaderLines ==
  {<<"f","e","c","h","a",",","p","r","o","v","e","e","d","o","r",",","c","o","n","s","u","m","o",",","u","n","i","d","a","d">>,
   <<"f","e","c","h","a",";","p","r","o","v","e","e","d","o","r",";","c","o","n","s","u","m","o",";","u","n","i","d","a","d">>,
   <<"F","e","c","h","a",",","E","m","p","r","e","s","a",",","I","m","p","o","r","t","e",",","T","i","p","o">>}

CsvDataLines ==
  {<<"1","5","/","0","3","/","2","0","2","4",",","E","n","d","e","s","a",",","1","5","0","0",",","k","W","h">>,
   <<"1","5","/","0","3","/","2","0","2","4",";","E","n","d","e","s","a",";","1","5","0","0",";","k","W","h">>,
   <<"1","6","/","0","3","/","2","0","2","4",",","R","e","p","s","o","l",",","2","5","0",",","L">>,
   <<"1","7","/","0","3","/","2","0","2","4",",","E","n","d","e","s","a",",",",","k","W","h">>,
   <<>>,
   <<"1","8","/","0","3","/","2","0","2","4",",","I","b","e","r","d","r","o","l","a">>}

\* the files: a header line and up to MaxCsvRows data lines
SampleCsvFiles ==
  {<<header>> \o data :
     header \in CsvHeaderLines,
     data \in UNION {[1..n -> CsvDataLines] : n \in 0..MaxCsvRows}}

---------------------------------------------------------------------------
(* utils/parser.py: the regular expressions of the Free-Text Extractor *)

\* A pattern is a sequence of items, matched with re.IGNORECASE:
\*   [kind |-> "lit", s]                    the characters s, in lower case
\*   [kind |-> "class", set, least, most, cap]
\*                                          a greedy repetition of a character
\*                                          class (set in lower case), from
\*                                          least to most times (most <<>>:
\*                                          unbounded), captured as group cap
\*                                          (0: not captured)
\*   [kind |-> "alt", options, cap]         (a|b|c), captured as group cap
\*   [kind |-> "opt", items]                (?:items)?
\* A match is [start, end, groups]: the text matched is text[start+1..end]
\* (start is the offset match.start()), groups maps the numbers of the
\* groups to the text they captured.

Lit(s) == [kind |-> "lit", s |-> s]

Plus(set, cap) ==
  [kind |-> "class", set |-> set, least |-> 1, most |-> <<>>, cap |-> cap]

Star(set) ==
  [kind |-> "class", set |-> set, least |-> 0, most |-> <<>>, cap |-> 0]

Maybe(set) ==
  [kind |-> "class", set |-> set, least |-> 0, most |-> <<1>>, cap |-> 0]

Between(set, least, most, cap) ==
  [kind |-> "class", set |-> set, least |-> least, most |-> <<most>>,
   cap |-> cap]

Alt(options, cap) == [kind |-> "alt", options |-> options, cap |-> cap]

Opt(items) == [kind |-> "opt", items |-> items]

\* the number of characters of text from position i on that are in set, up
\* to most
RECURSIVE Run(_, _, _, _)
Run(set, most, text, i) ==
  IF i > Len(text) \/ most = <<0>> \/ LowerChar(text[i]) \notin set
    THEN 0
    ELSE 1 + Run(set, IF most = <<>> THEN most ELSE <<most[1] - 1>>,
                 text, i + 1)

\* the match with a group added
WithGroup(match, cap, captured) ==
  IF match = <<>> \/ cap = 0 THEN match
  ELSE <<[match[1] EXCEPT !.groups = (cap :> captured) @@ @]>>

RECURSIVE MatchAt(_, _, _), ClassMatch(_, _, _, _, _), AltMatch(_, _, _, _, _)

\* the first match of the items at position i of text that the backtracking
\* matcher finds: <<match>>, or <<>> if there is none
MatchAt(items, text, i) ==
  IF items = <<>>
    THEN <<[start |-> i - 1, end |-> i - 1, groups |-> <<>>]>>
  ELSE LET item == Head(items)
           rest == Tail(items)
       IN  IF item.kind = "lit"
             THEN IF /\ i + Len(item.s) - 1 <= Len(text)
                     /\ Lower(SubSeq(text, i, i + Len(item.s) - 1)) = item.s
                    THEN MatchAt(rest, text, i + Len(item.s))
                    ELSE <<>>
           ELSE IF item.kind = "class"
             THEN ClassMatch(item, rest, text, i,
                             Run(item.set, item.most, text, i))
           ELSE IF item.kind = "alt"
             THEN AltMatch(item, rest, text, i, 1)
           ELSE LET taken == MatchAt(item.items \o rest, text, i)
                IN  IF taken # <<>> THEN taken ELSE MatchAt(rest, text, i)

\* a greedy repetition: n characters, then fewer
ClassMatch(item, rest, text, i, n) ==
  IF n < item.least THEN <<>>
  ELSE LET match == MatchAt(rest, text, i + n)
       IN  IF match # <<>>
             THEN WithGroup(match, item.cap, SubSeq(text, i, i + n - 1))
             ELSE ClassMatch(item, rest, text, i, n - 1)

\* an alternation: the options in order, from option k on
AltMatch(item, rest, text, i, k) ==
  IF k > Len(item.options) THEN <<>>
  ELSE LET option == item.options[k]
           next == i + Len(option)
           match == MatchAt(rest, text, next)
       IN  IF /\ next - 1 <= Len(text)
              /\ Lower(SubSeq(text, i, next - 1)) = option
              /\ match # <<>>
             THEN WithGroup(match, item.cap, SubSeq(text, i, next - 1))
             ELSE AltMatch(item, rest, text, i, k + 1)

\* re.search(pattern, text, re.IGNORECASE): the leftmost match, <<match>>,
\* or <<>>
search(items, text) ==
  LET starts == {i \in 1..(Len(text) + 1) : MatchAt(items, text, i) # <<>>}
      first == CHOOSE i \in starts : \A j \in starts : i <= j
  IN  IF starts = {} THEN <<>>
      ELSE <<[MatchAt(items, text, first)[1] EXCEPT !.start = first - 1]>>

\* match.group(0)
Group0(text, match) == SubSeq(text, match.start + 1, match.end)

\* the classes of the patterns: \s, [:\s], [0-9.,]
Spaces == {" ", "\t", "\n", "\r"}

ColonSpaces == Spaces \cup {":"}

NumberChars == Digits \cup {".", ","}

---------------------------------------------------------------------------
(* utils/parser.py: the Free-Text Extractor *)

\* sub in text.lower(), for a sub in lower case
InLower(sub, text) ==
  \E i \in 0..(Len(text) - Len(sub)) :
    Lower(SubSeq(text, i + 1, i + Len(sub))) = sub

\* the patterns of _extract_cost_near, in order
CostPatterns ==
  << <<Plus(NumberChars, 1), Star(Spaces), Lit(<<"euro">>)>>,
     <<Lit(<<"euro">>), Star(Spaces), Plus(NumberChars, 1)>>,
     <<Lit(<<"t","o","t","a","l">>), Plus(ColonSpaces, 0), Plus(NumberChars, 1)>>,
     <<Lit(<<"i","m","p","o","r","t","e">>), Plus(ColonSpaces, 0), Plus(NumberChars, 1)>> >>

\* x is not None, whatever its value
NotNone(x) == x # None

\* x and x > 0, for the Optional[float] x
Positive(x) == x # None /\ x[1].mant > 0

\* the loop of _extract_cost_near over the patterns from the k-th on
RECURSIVE CostFrom(_, _)
CostFrom(snippet, k) ==
  IF k > Len(CostPatterns) THEN None
  ELSE LET match == search(CostPatterns[k], snippet)
           cost == _parse_number(
                     [type |-> "str", v |-> match[1].groups[1]]).value
       IN  IF match # <<>> /\ Positive(cost)
             THEN cost
             ELSE CostFrom(snippet, k + 1)

\* the characters either side of the position that are searched for a cost
window == 200

\* _extract_cost_near searching only from the position on
_extract_cost_near_after(text, position) ==
  LET end == IF position + window < Len(text)
               THEN position + window ELSE Len(text)
  IN  CostFrom(SubSeq(text, position + 1, end), 1)

\* _extract_cost_near searching the whole text
_extract_cost_near_anywhere(text, position) == CostFrom(text, 1)

\* _extract_cost_near(text, position): Optional[float]; position is an
\* offset into text
_extract_cost_near(text, position) ==
  LET start == IF position - window > 0 THEN position - window ELSE 0
      end == IF position + window < Len(text)
               THEN position + window ELSE Len(text)
  IN  CostFrom(SubSeq(text, start + 1, end), 1)

\* the patterns of _extract_kwh, _extract_gas and _extract_fuel, in order
KwhPatterns ==
  << <<Lit(<<"c","o","n","s","u","m","o">>), Plus(ColonSpaces, 0), Plus(NumberChars, 1),
       Star(Spaces), Lit(<<"k","w","h">>)>>,
     <<Plus(NumberChars, 1), Star(Spaces), Lit(<<"k","w","h">>)>>,
     <<Lit(<<"e","n","e","r","g","i_acute","a"," ","c","o","n","s","u","m","i","d","a">>), Plus(ColonSpaces, 0), Plus(NumberChars, 1)>> >>

GasPatterns ==
  << <<Lit(<<"c","o","n","s","u","m","o">>), Plus(ColonSpaces, 0), Plus(NumberChars, 1),
       Star(Spaces), Lit(<<"m">>), Between({"sup3", "3"}, 1, 1, 0)>>,
     <<Plus(NumberChars, 1), Star(Spaces), Lit(<<"m">>),
       Between({"sup3", "3"}, 1, 1, 0)>>,
     <<Lit(<<"g","a","s"," ","n","a","t","u","r","a","l">>), Plus(ColonSpaces, 0), Plus(NumberChars, 1)>> >>

FuelNames ==
  <<<<"d","i","e","s","e","l">>,
    <<"g","a","s","o_acute","l","e","o">>,
    <<"g","a","s","o","l","i","n","a">>>>

FuelPatterns ==
  << <<Alt(FuelNames, 1), Plus(ColonSpaces, 0), Plus(NumberChars, 2),
       Star(Spaces), Lit(<<"l">>)>>,
     <<Plus(NumberChars, 1), Star(Spaces), Lit(<<"l","i","t","r","o">>), Maybe({"s"}),
       Plus(Spaces, 0), Opt(<<Lit(<<"d", "e">>), Plus(Spaces, 0)>>),
       Alt(FuelNames, 2)>> >>

\* the loop of _extract_kwh and of _extract_gas over the patterns from the
\* k-th on: Optional[dict] with usage and cost
RECURSIVE UsageFrom(_, _, _)
UsageFrom(patterns, text, k) ==
  IF k > Len(patterns) THEN None
  ELSE LET match == search(patterns[k], text)
           usage == _parse_number(
                      [type |-> "str", v |-> match[1].groups[1]]).value
       IN  IF match # <<>> /\ Positive(usage)
             THEN Some([usage |-> usage,
                        cost |-> _extract_cost_near(text, match[1].start)])
             ELSE UsageFrom(patterns, text, k + 1)

_extract_kwh(text) == UsageFrom(KwhPatterns, text, 1)

_extract_gas(text) == UsageFrom(GasPatterns, text, 1)

\* the fuel type read off the whole text
FuelTypeOfText(text, match) ==
  IF \/ InLower(FuelNames[1], text)
     \/ InLower(FuelNames[2], text)
    THEN diesel ELSE petrol

\* line 355: the fuel type read off match.group(0)
FuelType(text, match) ==
  IF \/ InLower(FuelNames[1], Group0(text, match))
     \/ InLower(FuelNames[2], Group0(text, match))
    THEN diesel ELSE petrol

\* the loop of _extract_fuel over the patterns from the k-th on:
\* Optional[dict] with type, usage and cost.  Both patterns have two
\* groups, so that line 356 parses group 2 of either.
RECURSIVE FuelFrom(_, _)
FuelFrom(text, k) ==
  IF k > Len(FuelPatterns) THEN None
  ELSE LET match == search(FuelPatterns[k], text)
           groups == DOMAIN match[1].groups
           usage == _parse_number(
                      [type |-> "str",
                       v |-> IF Cardinality(groups) > 1
                               THEN match[1].groups[2]
                               ELSE match[1].groups[1]]).value
       IN  IF match # <<>> /\ Positive(usage)
             THEN Some([type |-> FuelType(text, match[1]),
                        usage |-> usage,
                        cost |-> _extract_cost_near(text, match[1].start)])
             ELSE FuelFrom(text, k + 1)

_extract_fuel(text) == FuelFrom(text, 1)

\* the brands _extract_supplier knows, in order
Suppliers ==
  <<<<"E","n","d","e","s","a">>,
    <<"I","b","e","r","d","r","o","l","a">>,
    <<"N","a","t","u","r","g","y">>,
    <<"R","e","p","s","o","l">>,
    <<"C","e","p","s","a">>,
    <<"G","a","s"," ","N","a","t","u","r","a","l">>>>

\* the loop of _extract_supplier from the k-th brand on
RECURSIVE SupplierFrom(_, _)
SupplierFrom(text, k) ==
  IF k > Len(Suppliers) THEN None
  ELSE IF InLower(Lower(Suppliers[k]), text) THEN Some(Suppliers[k])
  ELSE SupplierFrom(text, k + 1)

\* _extract_supplier(text): Optional[str]
_extract_supplier(text) == SupplierFrom(text, 1)

\* [A-Z0-9-] under re.IGNORECASE
InvoiceChars ==
  Digits \cup {"-"}
    \cup {"a", "b", "c", "d", "e", "f", "g", "h", "i", "j", "k", "l", "m",
          "n", "o", "p", "q", "r", "s", "t", "u", "v", "w", "x", "y", "z"}

\* the patterns of _extract_invoice_number, in order
InvoicePatterns ==
  << <<Lit(<<"n">>), Between({"u_acute", "u"}, 1, 1, 0), Lit(<<"m","e","r","o">>),
       Plus(Spaces, 0), Opt(<<Lit(<<"d", "e">>), Plus(Spaces, 0)>>),
       Lit(<<"f","a","c","t","u","r","a">>), Plus(ColonSpaces, 0), Plus(InvoiceChars, 1)>>,
     <<Lit(<<"f","a","c","t","u","r","a">>), Plus(Spaces, 0), Lit(<<"n">>),
       Between({"u_acute", "u"}, 1, 1, 0), Lit(<<"m", ".">>), Star(Spaces),
       Plus(InvoiceChars, 1)>>,
     <<Lit(<<"i","n","v","o","i","c","e">>), Plus(Spaces, 0),
       Alt(<<<<"n","u","m","b","e","r">>, <<"#">>>>, 0),
       Plus(ColonSpaces, 0), Plus(InvoiceChars, 1)>> >>

\* the loop of _extract_invoice_number from the k-th pattern on
RECURSIVE InvoiceFrom(_, _)
InvoiceFrom(text, k) ==
  IF k > Len(InvoicePatterns) THEN None
  ELSE LET match == search(InvoicePatterns[k], text)
       IN  IF match # <<>> THEN Some(match[1].groups[1])
           ELSE InvoiceFrom(text, k + 1)

\* _extract_invoice_number(text): Optional[str]
_extract_invoice_number(text) == InvoiceFrom(text, 1)

\* (\d{1,2})[/-](\d{1,2})[/-](\d{4})
DatePattern ==
  <<Between(Digits, 1, 2, 1), Between({"/", "-"}, 1, 1, 0),
    Between(Digits, 1, 2, 2), Between({"/", "-"}, 1, 1, 0),
    Between(Digits, 4, 4, 3)>>

\* _extract_date(text): Optional[date]; datetime(), which raises for a date
\* not of the calendar, is inside a try
_extract_date(text) ==
  LET match == search(DatePattern, text)
      day == IntOfDigits(match[1].groups[1])
      month == IntOfDigits(match[1].groups[2])
      year == IntOfDigits(match[1].groups[3])
  IN  IF match = <<>> THEN None
      ELSE IF /\ year >= 1
              /\ month \in 1..12
              /\ day >= 1
              /\ day <= DaysInMonth(year, month)
        THEN Some([year |-> year, month |-> month, day |-> day])
      ELSE None

\* the dict with the supplier as extracted, without 'Unknown' in its place
TextRecord_as_extracted(supplier, date, invoice_number, category, unit, data) ==
  [supplier |-> supplier,
   category |-> Some(category),
   usage |-> data.usage,
   unit |-> Some(unit),
   cost |-> data.cost,
   date |-> date,
   invoice_number |-> invoice_number]

\* the dict parse_text appends for an extractor's data; supplier, date and
\* invoice_number are those extracted from the text
TextRecord(supplier, date, invoice_number, category, unit, data) ==
  [supplier |-> IF supplier # None THEN supplier
                ELSE Some(<<"U","n","k","n","o","w","n">>),
   category |-> Some(category),
   usage |-> data.usage,
   unit |-> Some(unit),
   cost |-> data.cost,
   date |-> date,
   invoice_number |-> invoice_number]

\* parse_text that goes on to the next extractor only while it has no record
parse_text_first_only(text) ==
  LET supplier == _extract_supplier(text)
      invoice_number == _extract_invoice_number(text)
      date == _extract_date(text)
      kwh_data == _extract_kwh(text)
      gas_data == _extract_gas(text)
      fuel_data == _extract_fuel(text)
  IN  IF kwh_data # None
        THEN <<TextRecord(supplier, date, invoice_number, electricity,
                          <<"k","W","h">>, kwh_data[1])>>
      ELSE IF gas_data # None
        THEN <<TextRecord(supplier, date, invoice_number, natural_gas,
                          <<"m","3">>, gas_data[1])>>
      ELSE IF fuel_data # None
        THEN <<TextRecord(supplier, date, invoice_number, fuel_data[1].type,
                          <<"L">>, fuel_data[1])>>
      ELSE <<>>

\* parse_text(text): the list of records; nothing in the try block raises
parse_text(text) ==
  LET supplier == _extract_supplier(text)
      invoice_number == _extract_invoice_number(text)
      date == _extract_date(text)
      kwh_data == _extract_kwh(text)
      gas_data == _extract_gas(text)
      fuel_data == _extract_fuel(text)
  IN  (IF kwh_data # None
         THEN <<TextRecord(supplier, date, invoice_number, electricity,
                           <<"k","W","h">>, kwh_data[1])>>
         ELSE <<>>)
      \o
      (IF gas_data # None
         THEN <<TextRecord(supplier, date, invoice_number, natural_gas,
                           <<"m","3">>, gas_data[1])>>
         ELSE <<>>)
      \o
      (IF fuel_data # None
         THEN <<TextRecord(supplier, date, invoice_number, fuel_data[1].type,
                           <<"L">>, fuel_data[1])>>
         ELSE <<>>)

\* the fragments the sample texts are made of
TextFragments ==
  {<<>>,
   <<"C","o","n","s","u","m","o",":"," ","2","5","0"," ","m","sup3">>,
   <<"T","o","t","a","l",":"," ","4","5",",","2","0","euro">>,
   <<"C","o","n","s","u","m","o",":"," ","1",".","5","0","0"," ","k","W","h">>,
   <<"C","o","n","s","u","m","o",":"," ","0"," ","k","W","h">>,
   <<"3","0","0"," ","k","W","h">>,
   <<"E","n","e","r","g","i_acute","a"," ","c","o","n","s","u","m","i","d","a",":"," ","1","2","0">>,
   <<"G","a","s"," ","n","a","t","u","r","a","l",":"," ","7","5">>,
   <<"D","i","e","s","e","l",":"," ","5","0"," ","L">>,
   <<"5","0"," ","l","i","t","r","o","s"," ","d","e"," ","D","i","e","s","e","l">>,
   <<"G","a","s","o","l","i","n","a",":"," ","3","0"," ","l","i","t","r","o","s">>,
   <<"G","a","s","o_acute","l","e","o"," ","4","0"," ","l">>,
   <<"p","a","g","o"," ","e","n"," ","d","i","e","s","e","l">>,
   <<"I","V","A"," ","9",",","4","9","euro">>,
   <<"F","a","c","t","u","r","a"," ","d","e"," ","E","n","d","e","s","a"," ","1","5","/","0","3","/","2","0","2","4">>,
   <<"I","n","v","o","i","c","e"," ","#",":"," ","A","-","1","7"," ","i","m","p","o","r","t","e"," ","0",",","0","0">>,
   <<"R","e","p","s","o","l"," ","1","-","2","-","2","0","2","3"," ","F","a","c","t","u","r","a"," ","n","u_acute","m","."," ","B","2">>,
   <<"C","e","p","s","a"," ","3","1","/","0","2","/","2","0","2","4">>,
   <<"I","m","p","o","r","t","e",":"," ","1","2",",","5","0"," ","T","o","t","a","l"," ","3","0">>}

\* n characters without meaning to any pattern
Filler(n) == [i \in 1..n |-> "x"]

\* what stands between the first and the last fragment of a sample text:
\* nothing, filler that keeps them within the window, leaves the first
\* fragment across the edge of the window or pushes it out, or a gas
\* consumption
TextMiddles ==
  {<<>>, Filler(window \div 2), Filler(window - 5), Filler(window),
   <<"C","o","n","s","u","m","o",":"," ","2","5","0"," ","m","sup3">>}

\* a fragment with an amount of money (the ones written with a decimal
\* comma)
HasAmount(fragment) == \E i \in DOMAIN fragment : fragment[i] = ","

\* the texts: three lines; the distance between the fragments is varied
\* where one of them has an amount, which is what the window is about
SampleTexts ==
  {first \o <<"\n">> \o middle \o <<"\n">> \o last :
     first \in TextFragments, middle \in TextMiddles, last \in TextFragments}
  \ {first \o <<"\n">> \o Filler(n) \o <<"\n">> \o last :
       first \in {f \in TextFragments : ~HasAmount(f)},
       n \in {window \div 2, window - 5, window},
       last \in {f \in TextFragments : ~HasAmount(f)}}

\* a call of parse_text
Call_parse_text ==
  /\ op = "idle"
  /\ \E text \in SampleTexts :
       /\ args' = [text |-> text]
       /\ ret' = parse_text(text)
  /\ op' = "parse_text"
  /\ UNCHANGED <<emission_factors, pipeline>>

InitText == emission_factors = {} /\ Idle /\ NoPipeline

NextText == Call_parse_text \/ Return

\* the Free-Text Extractor called on any sample text
SpecText == InitText /\ [][NextText]_vars

---------------------------------------------------------------------------
(* utils/calculator.py: the Emission Calculator *)

\* a row of emission_factors is
\*   [category, unit, factor, source, year]
\* with category, unit and source strings, factor a float (kg CO2e per unit)
\* and year an integer.

RECURSIVE Pow10(_)
Pow10(k) == IF k = 0 THEN 1 ELSE 10 * Pow10(k - 1)

Abs(n) == IF n < 0 THEN -n ELSE n

\* the truth value of an Optional[float]: None and 0 are false
TruthyFloat(o) == o # None /\ o[1].mant # 0

\* str(n) of an integer n >= 0
RECURSIVE StrOfInt(_)
StrOfInt(n) ==
  LET digit == <<"0", "1", "2", "3", "4", "5", "6", "7", "8", "9">>[(n % 10) + 1]
  IN  IF n < 10 THEN <<digit>> ELSE StrOfInt(n \div 10) \o <<digit>>

\* The product usage * factor / 1000.0 is computed in binary floating point,
\* and round(x, 3) rounds the double it is given: where the decimal product
\* lies exactly between two thousandths the direction depends on the
\* doubles.  These are the <<usage, factor>> among SampleUsages and the
\* factors of FactorRows where the exact product is such a tie and CPython
\* rounds away from zero; on the other ties among them it rounds toward zero.
FloatTiesRoundedAway ==
  {<<[mant |-> 250, frac |-> 0], [mant |-> 202, frac |-> 3]>>,
   <<[mant |-> -250, frac |-> 0], [mant |-> 202, frac |-> 3]>>}

\* round(float(usage) * float(factor) / 1000.0, 3): tonnes, to the
\* thousandth
co2e_tonnes(usage, factor) ==
  LET scale == Pow10(usage.frac + factor.frac)
      kg == Abs(usage.mant * factor.mant)
      sign == IF usage.mant * factor.mant < 0 THEN -1 ELSE 1
      rest == kg % scale
      up == \/ 2 * rest > scale
            \/ 2 * rest = scale /\ <<usage, factor>> \in FloatTiesRoundedAway
  IN  Float(sign * ((kg \div scale) + (IF up THEN 1 ELSE 0)), 3)

\* the orders ORDER BY year ASC may return rows in
order_by_year_asc(rows) ==
  {q \in [1..Cardinality(rows) -> rows] :
     /\ \A i, j \in DOMAIN q : i # j => q[i] # q[j]
     /\ \A i, j \in DOMAIN q : i < j => q[i].year <= q[j].year}

\* the orders .order_by(EmissionFactor.year.desc()) may return rows in: the
\* database fixes no order among rows of the same year
order_by_year_desc(rows) ==
  {q \in [1..Cardinality(rows) -> rows] :
     /\ \A i, j \in DOMAIN q : i # j => q[i] # q[j]
     /\ \A i, j \in DOMAIN q : i < j => q[i].year >= q[j].year}

\* the rows .first() may return for the query of calculate_emissions
\* (none: the query has no row)
factor_records(db, category, unit) ==
  {q[1] : q \in order_by_year_desc(
            {r \in db : r.category = category /\ r.unit = unit}) \ {<<>>}}

---------------------------------------------------------------------------
(* calculate_emissions *)

\* the body of the try block of calculate_emissions (lines 24-65): the
\* outcomes the block may have, each a value returned (an Optional[dict]) or
\* an exception raised; there are several only where the query may return
\* several rows.  Every value of data is an Optional.  The block raises
\* where _infer_category is reached with a supplier None (supplier.lower(),
\* line 115).
calculate_emissions_try(data, db) ==
  LET category == Get(data, "category", None)
      usage == Get(data, "usage", None)
      unit == Get(data, "unit", None)
      supplier == Get(data, "supplier", Some(<<>>))
  IN  IF ~TruthyFloat(usage) \/ ~TruthyStr(unit)
        THEN {Returned(None)}
      ELSE IF ~TruthyStr(category) /\ supplier = None
        THEN {Raised}
      ELSE
        LET resolved == _normalize_category(
                          category, unit[1],
                          IF supplier = None THEN <<>> ELSE supplier[1])
            normalized == _normalize_unit(unit[1])
        IN  IF resolved = None
              THEN {Returned(None)}
            ELSE IF factor_records(db, resolved[1], normalized) = {}
              THEN {Returned(None)}
            ELSE {Returned(Some(
                    [category |-> resolved[1],
                     scope |-> _determine_scope(resolved[1]),
                     co2e |-> co2e_tonnes(usage[1], factor_record.factor),
                     emission_factor |-> factor_record.factor,
                     factor_source |->
                       factor_record.source \o <<" ">>
                         \o StrOfInt(factor_record.year)])) :
                    factor_record \in
                      factor_records(db, resolved[1], normalized)}

\* calculate_emissions with its except clause taken away
calculate_emissions_no_except(data, db) == calculate_emissions_try(data, db)

\* a call of calculate_emissions(data, db): the outcomes it may have; an
\* exception raised in the try block is caught at line 67 and None returned
calculate_emissions_call(data, db) ==
  {IF outcome.raises THEN Returned(None) ELSE outcome :
     outcome \in calculate_emissions_try(data, db)}

\* calculate_emissions(data, db): the values the call may return
calculate_emissions(data, db) ==
  {outcome.value : outcome \in calculate_emissions_call(data, db)}

\* the longest emission_factors table
MaxFactorRows == 3

\* the rows the tables are made of
FactorRows ==
  {[category |-> electricity, unit |-> <<"k","W","h">>,
    factor |-> Float(250, 3), source |-> <<"E","E","A">>, year |-> 2022],
   [category |-> electricity, unit |-> <<"k","W","h">>,
    factor |-> Float(210, 3), source |-> <<"E","E","A">>, year |-> 2023],
   [category |-> electricity, unit |-> <<"k","W","h">>,
    factor |-> Float(233, 3), source |-> <<"D","E","F","R","A">>, year |-> 2023],
   [category |-> electricity, unit |-> <<"k","W","h">>,
    factor |-> Float(300, 3), source |-> <<"E","E","A">>, year |-> 2023],
   [category |-> diesel, unit |-> <<"L">>,
    factor |-> Float(2680, 3), source |-> <<"D","E","F","R","A">>, year |-> 2023],
   [category |-> natural_gas, unit |-> <<"m","3">>,
    factor |-> Float(202, 3), source |-> <<"I","P","C","C">>, year |-> 2021],
   [category |-> purchased_goods, unit |-> <<"E","U","R">>,
    factor |-> Float(400, 3), source |-> <<"E","X","I","O","B","A","S","E">>, year |-> 2022]}

\* UniqueConstraint('category', 'unit', 'source', 'year')
uix_factor(rows) ==
  \A r1, r2 \in rows :
    (/\ r1.category = r2.category /\ r1.unit = r2.unit
     /\ r1.source = r2.source /\ r1.year = r2.year) => r1 = r2

\* the tables: up to MaxFactorRows of FactorRows that the constraint admits
SampleTables ==
  {t \in SUBSET FactorRows : Cardinality(t) <= MaxFactorRows /\ uix_factor(t)}

\* the entries calculate_emissions is called on: data dicts with category,
\* usage and unit (None: absent) and with or without a supplier
SampleEntries ==
  {[category |-> c, usage |-> u, unit |-> n] :
     c \in {None,
            Some(<<"E","l","e","c","t","r","i","c","i","d","a","d"," ">>),
            Some(<<"d","i","e","s","e","l">>),
            Some(<<"w","a","t","e","r">>),
            Some(<<"C","o","m","p","r","a","s">>)},
     u \in {None, Some(Float(0, 0)), Some(Float(100, 0)),
            Some(Float(1000, 0)), Some(Float(1500, 0)),
            Some(Float(123456, 2)), Some(Float(-250, 0))},
     n \in {None, Some(<<>>), Some(<<"k","W","h">>), Some(<<"k","w","h">>),
            Some(<<"M","3">>), Some(<<"L">>),
            Some(<<"x","y","z">>), Some(<<"e","u","r">>)}}
    \cup
  {[category |-> None, usage |-> Some(Float(250, 0)), unit |-> n,
    supplier |-> x] :
     n \in {Some(<<"m","3">>), Some(<<"L">>), Some(<<"x","y","z">>)},
     x \in {None, Some(<<"G","a","s"," ","N","a","t","u","r","a","l">>), Some(<<"R","e","p","s","o","l"," ","D","i","e","s","e","l">>)}}

\* a call of calculate_emissions
Calculate ==
  /\ op = "idle"
  /\ \E data \in SampleEntries :
       /\ args' = [data |-> data]
       /\ \E result \in calculate_emissions(data, emission_factors) :
            ret' = [first |-> result]
  /\ op' = "calculate_emissions"
  /\ UNCHANGED <<emission_factors, pipeline>>

\* a second call of calculate_emissions on the same entry, the table as it
\* was
Recalculate ==
  /\ op = "calculate_emissions"
  /\ "second" \notin DOMAIN ret
  /\ \E result \in calculate_emissions(args.data, emission_factors) :
       ret' = [first |-> ret.first, second |-> result]
  /\ UNCHANGED <<pipeline, emission_factors, op, args>>

Init == emission_factors \in SampleTables /\ Idle /\ NoPipeline

Next == Calculate \/ Recalculate \/ Return

\* the Emission Calculator called on any sample entry against any table
Spec == Init /\ [][Next]_vars

---------------------------------------------------------------------------
(* routers/analyze.py: the calculation loop of analyze_document *)

\* While analyze_document runs, args holds extracted_data and the index i
\* of the entry the loop is at, and ret the list records built so far.
\* The run ends in op = "completed" (lines 198-201: the records saved, the
\* document COMPLETED) or op = "failed" (lines 228-236: an exception
\* caught, the document FAILED, no record saved).

\* Record(...) of lines 179-193, for the entry data and its emission_result
Record(data, emission_result) ==
  [supplier |-> Get(data, "supplier", None),
   category |-> emission_result.category,
   usage |-> Get(data, "usage", None),
   unit |-> Get(data, "unit", None),
   cost |-> Get(data, "cost", None),
   scope |-> emission_result.scope,
   co2e |-> emission_result.co2e,
   factor_source |-> emission_result.factor_source,
   emission_factor |-> emission_result.emission_factor,
   date |-> Get(data, "date", None),
   invoice_number |-> Get(data, "invoice_number", None),
   notes |-> Get(data, "notes", None)]

\* the longest extracted_data
MaxEntries == 3

\* the entries documents are made of: calculable ones (a diesel entry, an
\* electricity entry without category, a purchased-goods entry) and
\* malformed ones (no category and a supplier None, an unknown category, an
\* unknown unit, no usage, no field but notes)
DocumentEntries ==
  {[category |-> Some(<<"d","i","e","s","e","l">>), usage |-> Some(Float(100, 0)),
    unit |-> Some(<<"L">>)],
   [usage |-> Some(Float(1000, 0)), unit |-> Some(<<"k","w","h">>)],
   [category |-> Some(<<"C","o","m","p","r","a","s">>), usage |-> Some(Float(123456, 2)),
    unit |-> Some(<<"e","u","r">>), supplier |-> None],
   [category |-> None, usage |-> Some(Float(250, 0)),
    unit |-> Some(<<"x","y","z">>), supplier |-> None],
   [category |-> Some(<<"w","a","t","e","r">>), usage |-> Some(Float(1500, 0)),
    unit |-> Some(<<"L">>), supplier |-> Some(<<"R","e","p","s","o","l">>)],
   [category |-> Some(<<"d","i","e","s","e","l">>), usage |-> Some(Float(2, 0)),
    unit |-> Some(<<"x","y","z">>)],
   [category |-> Some(<<"d","i","e","s","e","l">>), unit |-> Some(<<"L">>)],
   [notes |-> Some(<<"n","/","a">>)]}

\* the extracted_data of the documents: the non-empty lists of up to
\* MaxEntries entries
SampleDocuments ==
  UNION {[1..n -> DocumentEntries] : n \in 1..MaxEntries}

\* the tables documents are analyzed against
AnalyzeTables == {table \in SampleTables : Cardinality(table) <= 1}

\* lines 171-174: the loop is entered with no record
AnalyzeStart ==
  /\ op = "idle"
  /\ \E extracted_data \in SampleDocuments :
       args' = [extracted_data |-> extracted_data, i |-> 1]
  /\ ret' = [records |-> <<>>]
  /\ op' = "analyze_document"
  /\ UNCHANGED <<emission_factors, pipeline>>

\* lines 176-196: one turn of the loop; an exception leaves the loop for
\* the handler of line 228
AnalyzeEntry ==
  /\ op = "analyze_document"
  /\ args.i <= Len(args.extracted_data)
  /\ \E outcome \in calculate_emissions_call(args.extracted_data[args.i],
                                             emission_factors) :
       IF outcome.raises
         THEN /\ op' = "failed"
              /\ ret' = [records |-> <<>>]
              /\ UNCHANGED args
         ELSE /\ op' = op
              /\ args' = [args EXCEPT !.i = @ + 1]
              /\ ret' = IF outcome.value # None
                          THEN [records |->
                                  Append(ret.records,
                                         Record(args.extracted_data[args.i],
                                                outcome.value[1]))]
                          ELSE ret
  /\ UNCHANGED <<emission_factors, pipeline>>

\* lines 198-201: after the last entry the records are saved
AnalyzeSave ==
  /\ op = "analyze_document"
  /\ args.i > Len(args.extracted_data)
  /\ op' = "completed"
  /\ UNCHANGED <<pipeline, emission_factors, args, ret>>

InitAnalyze == emission_factors \in AnalyzeTables /\ Idle /\ NoPipeline

NextAnalyze == AnalyzeStart \/ AnalyzeEntry \/ AnalyzeSave \/ Return

\* the calculation loop run on any sample document against any table
SpecAnalyze == InitAnalyze /\ [][NextAnalyze]_vars

---------------------------------------------------------------------------
(* A CSV document parsed and its entries calculated *)

\* analyze_document on a CSV document, lines 155-156: extracted_data is
\* parse_csv of the file
Call_parse_csv ==
  /\ op = "idle"
  /\ \E lines \in SampleCsvFiles :
       /\ args' = [lines |-> lines]
       /\ ret' = [extracted_data |-> parse_csv(lines)]
  /\ op' = "parse_csv"
  /\ UNCHANGED <<emission_factors, pipeline>>

\* lines 176-177: calculate_emissions called on each entry in turn
CalculateExtracted ==
  /\ op = "parse_csv"
  /\ \E results \in [DOMAIN ret.extracted_data ->
                       UNION {calculate_emissions(ret.extracted_data[k],
                                                  emission_factors) :
                                k \in DOMAIN ret.extracted_data}] :
       /\ \A k \in DOMAIN results :
            results[k] \in calculate_emissions(ret.extracted_data[k],
                                               emission_factors)
       /\ ret' = [extracted_data |-> ret.extracted_data,
                  results |-> results]
  /\ op' = "calculated"
  /\ UNCHANGED <<pipeline, emission_factors, args>>

InitCsv == emission_factors \in AnalyzeTables /\ Idle /\ NoPipeline

NextCsv == Call_parse_csv \/ CalculateExtracted \/ Return

\* any sample CSV file parsed and calculated against any table
SpecCsv == InitCsv /\ [][NextCsv]_vars

---------------------------------------------------------------------------
(* A text document parsed and its entries calculated *)

\* the texts of two lines
ShortTexts ==
  {first \o <<"\n">> \o last :
     first \in TextFragments, last \in TextFragments}

\* the tables a text document is calculated against: none or one of the
\* rows for electricity, natural gas and diesel (no table has a petrol row)
TextTables ==
  {table \in AnalyzeTables :
     \A row \in table :
       /\ row.category \in {electricity, natural_gas, diesel}
       /\ row.year = 2023 \/ row.category = natural_gas}

\* lines 151-152 of analyze_document: the text of the document parsed
ExtractText ==
  /\ op = "idle"
  /\ \E text \in ShortTexts :
       /\ args' = [text |-> text]
       /\ ret' = [extracted_data |-> parse_text(text)]
  /\ op' = "extracted"
  /\ UNCHANGED <<emission_factors, pipeline>>

\* lines 176-177: calculate_emissions called on each entry in turn
CalculateText ==
  /\ op = "extracted"
  /\ \E results \in [DOMAIN ret.extracted_data ->
                       UNION {calculate_emissions(ret.extracted_data[k],
                                                  emission_factors) :
                                k \in DOMAIN ret.extracted_data}] :
       /\ \A k \in DOMAIN results :
            results[k] \in calculate_emissions(ret.extracted_data[k],
                                               emission_factors)
       /\ ret' = [extracted_data |-> ret.extracted_data,
                  results |-> results]
  /\ op' = "calculated_text"
  /\ UNCHANGED <<pipeline, emission_factors, args>>

InitTextCalc == emission_factors \in TextTables /\ Idle /\ NoPipeline

NextTextCalc == ExtractText \/ CalculateText \/ Return

\* any short sample text parsed and calculated against any of the tables
SpecTextCalc == InitTextCalc /\ [][NextTextCalc]_vars

---------------------------------------------------------------------------
(* db.py: the factor table seeded                                          *)

\* the rows of emission_factors.csv as csv.DictReader gives them, with the
\* cells already read: factor is None where float() raises for the cell
SeedRows ==
  {[category |-> electricity, unit |-> <<"k","W","h">>,
    factor |-> Some(Float(210, 3)), source |-> <<"E","E","A">>, year |-> 2023],
   [category |-> diesel, unit |-> <<"L">>,
    factor |-> Some(Float(2680, 3)), source |-> <<"D","E","F","R","A">>, year |-> 2023],
   [category |-> natural_gas, unit |-> <<"m","3">>,
    factor |-> Some(Float(202, 3)), source |-> <<"I","P","C","C">>, year |-> 2021],
   [category |-> purchased_goods, unit |-> <<"E","U","R">>,
    factor |-> None, source |-> <<"E","X","I","O","B","A","S","E">>, year |-> 2022]}

\* the factor files: None where the file does not exist, else its rows in
\* order (none, the three good rows, a row twice, a row with a bad factor)
SeedFiles ==
  LET row == [k \in 1..4 |->
                CHOOSE r \in SeedRows :
                  r.category = <<electricity, diesel, natural_gas,
                                 purchased_goods>>[k]]
  IN  {None,
       Some(<<>>),
       Some(<<row[1], row[2], row[3]>>),
       Some(<<row[1], row[2], row[1]>>),
       Some(<<row[1], row[4], row[3]>>)}

\* lines 98-109: the EmissionFactor objects of the rows
factors(rows) ==
  [k \in DOMAIN rows |->
     [category |-> rows[k].category, unit |-> rows[k].unit,
      factor |-> rows[k].factor[1], source |-> rows[k].source,
      year |-> rows[k].year]]

\* seed_emission_factors committing each row as it is read: the rows before
\* the one that fails stay in the table
seed_emission_factors_row_by_row(table, file) ==
  IF Cardinality(table) > 0 THEN table
  ELSE IF file = None THEN table
  ELSE LET bad == {k \in DOMAIN file[1] :
                     \/ file[1][k].factor = None
                     \/ \E i \in 1..(k - 1) :
                          /\ file[1][i].category = file[1][k].category
                          /\ file[1][i].unit = file[1][k].unit
                          /\ file[1][i].source = file[1][k].source
                          /\ file[1][i].year = file[1][k].year}
           good == {k \in DOMAIN file[1] : \A b \in bad : k < b}
       IN  {[category |-> file[1][k].category, unit |-> file[1][k].unit,
             factor |-> file[1][k].factor[1], source |-> file[1][k].source,
             year |-> file[1][k].year] : k \in good}

\* seed_emission_factors: the table afterwards.  A table with rows is left
\* alone, and so is the table when the file does not exist; float() raising
\* on a cell, or the insert of a row that breaks the uniqueness constraint,
\* ends in the rollback of line 117.
seed_emission_factors(table, file) ==
  IF Cardinality(table) > 0 THEN table
  ELSE IF file = None THEN table
  ELSE IF \E k \in DOMAIN file[1] : file[1][k].factor = None THEN table
  ELSE IF \E i, j \in DOMAIN file[1] :
            /\ i # j
            /\ file[1][i].category = file[1][j].category
            /\ file[1][i].unit = file[1][j].unit
            /\ file[1][i].source = file[1][j].source
            /\ file[1][i].year = file[1][j].year
         THEN table
  ELSE {factors(file[1])[k] : k \in DOMAIN file[1]}

---------------------------------------------------------------------------
(* routers/analyze.py: analyze_document and process_document_task          *)

\* The documents table is a function from document ids to rows
\* [file_type, file, status, processed_date, error_message]; file stands
\* for what is stored at file_path: the lines of a CSV file, or the text
\* that extract_text_from_pdf reads off a PDF file.  processed_date is the
\* number of the run that set it.  A row of the records table is
\* [id, document_id, record]: id, the default uuid, is the pair of the run
\* that created the row and its place in that run's list.

\* the most runs begun
MaxRuns == 2

\* the runs that can be in progress at the same time
Slots == {1, 2}

\* the ids of the documents of the table
DocIds == {"d1", "d2"}

\* the files of the sample documents: a CSV file of four rows (electricity,
\* fuel, purchased goods, natural gas), a CSV file of a header only, a PDF
\* file of a gas bill and a PDF file without any consumption
SampleFiles ==
  {[file_type |-> "csv",
    file |-> <<<<"f","e","c","h","a",",","p","r","o","v","e","e","d","o","r",",","c","o","n","s","u","m","o",",","u","n","i","d","a","d">>,
               <<"1","5","/","0","3","/","2","0","2","4",",","E","n","d","e","s","a",",","1","5","0","0",",","k","W","h">>,
               <<"1","6","/","0","3","/","2","0","2","4",",","R","e","p","s","o","l",",","2","5","0",",","L">>,
               <<"1","9","/","0","3","/","2","0","2","4",",","A","c","m","e",",","1","2","3","4",",","e","u","r">>,
               <<"2","0","/","0","3","/","2","0","2","4",",","G","a","s"," ","N","a","t","u","r","a","l",",","2","5","0",",","m","3">>>>],
   [file_type |-> "csv", file |-> <<<<"f","e","c","h","a",",","p","r","o","v","e","e","d","o","r",",","c","o","n","s","u","m","o",",","u","n","i","d","a","d">>>>],
   [file_type |-> "pdf", file |-> <<"C","o","n","s","u","m","o",":"," ","2","5","0"," ","m","sup3","\n","T","o","t","a","l",":"," ","4","5",",","2","0","euro">>],
   [file_type |-> "pdf", file |-> <<"p","a","g","o"," ","e","n"," ","d","i","e","s","e","l">>]}

\* the documents tables runs start from: d1 a CSV file and d2 a PDF file,
\* both uploaded, either both with consumption data or both without
SampleDocumentTables ==
  {[d \in DocIds |->
      [file_type |-> f[d].file_type, file |-> f[d].file,
       status |-> "uploaded", processed_date |-> None,
       error_message |-> None]] :
     f \in {g \in [DocIds -> SampleFiles] :
              /\ g["d1"].file_type = "csv" /\ g["d2"].file_type = "pdf"
              /\ (Len(g["d1"].file) = 1) = (Len(g["d2"].file) < 20)}}

\* the factor tables runs start from: the empty one and one with a row for
\* electricity, natural gas, diesel and purchased goods
PipelineTables ==
  {{},
   {row \in FactorRows :
      \/ row.category # electricity
      \/ row.source = <<"E","E","A">> /\ row.year = 2023 /\ row.factor = Float(210, 3)}}

\* lines 148-163: extracted_data for the document
extract(document) ==
  IF document.file_type = "pdf" THEN parse_text(document.file)
  ELSE IF document.file_type = "csv" THEN parse_csv(document.file)
  ELSE <<>>

\* extract for the stored file of each sample document
extracted_data_of ==
  [f \in SampleFiles |-> extract(f)]

\* the stored file of a row of the documents table
StoredFile(document) ==
  [file_type |-> document.file_type, file |-> document.file]

\* lines 172-196: the lists of records the loop can end with for the
\* entries from the i-th on (several where the factor query can return
\* several rows)
RECURSIVE LoopFrom(_, _, _)
LoopFrom(extracted_data, db, i) ==
  IF i > Len(extracted_data) THEN {<<>>}
  ELSE {(IF emission_result = None THEN <<>>
         ELSE <<Record(extracted_data[i], emission_result[1])>>) \o rest :
          emission_result \in calculate_emissions(extracted_data[i], db),
          rest \in LoopFrom(extracted_data, db, i + 1)}

\* a + b for floats
Plus_(a, b) ==
  LET frac == IF a.frac > b.frac THEN a.frac ELSE b.frac
  IN  Float(a.mant * Pow10(frac - a.frac) + b.mant * Pow10(frac - b.frac),
            frac)

\* lines 195-196: the co2e of the first n records of the list that satisfy
\* the test, added up in the order of the list
RECURSIVE TotalOf(_, _, _)
TotalOf(list, n, scopes) ==
  IF n = 0 THEN Float(0, 0)
  ELSE IF list[n].scope \in scopes
    THEN Plus_(TotalOf(list, n - 1, scopes), list[n].co2e)
  ELSE TotalOf(list, n - 1, scopes)

\* round(x, 3) of a sum of thousandths
round3(x) == Float(x.mant * Pow10(3 - x.frac), 3)

\* AnalyzeResponse with a total that leaves the scope 3 records out
AnalyzeResponse_without_scope3(document_id, list) ==
  [document_id |-> document_id,
   status |-> "completed",
   records_extracted |-> Len(list),
   total_co2e |-> round3(TotalOf(list, Len(list), {1, 2})),
   scope1 |-> round3(TotalOf(list, Len(list), {1})),
   scope2 |-> round3(TotalOf(list, Len(list), {2})),
   scope3 |-> round3(TotalOf(list, Len(list), {3}))]

\* lines 215-224: the response of a successful run
AnalyzeResponse(document_id, list) ==
  [document_id |-> document_id,
   status |-> "completed",
   records_extracted |-> Len(list),
   total_co2e |-> round3(TotalOf(list, Len(list), {1, 2, 3})),
   scope1 |-> round3(TotalOf(list, Len(list), {1})),
   scope2 |-> round3(TotalOf(list, Len(list), {2})),
   scope3 |-> round3(TotalOf(list, Len(list), {3}))]

\* a slot without a run
NoRequest ==
  [pc |-> "idle", kind |-> "", document_id |-> "", run |-> 0,
   extracted_data |-> <<>>, records |-> <<>>, raised_in |-> "",
   response |-> None]

\* the end of a run: the response the caller gets (None for the background
\* task, which has no caller); the locals are gone
Ended(request, response) ==
  [request EXCEPT !.pc = "done", !.extracted_data = <<>>, !.records = <<>>,
                  !.raised_in = "", !.response = response]

\* HTTPException(status_code, detail)
HTTPException(status_code) == Some([status_code |-> status_code])

\* lines 127-142 of analyze_document and 41-47 of process_document_task: a
\* run begins on a document id.  analyze_document answers 404 for a
\* document that is not there and 409 for one that is being processed;
\* process_document_task returns for a document that is not there and else
\* commits the status PROCESSING.
Begin(slot) ==
  /\ requests[slot].pc \in {"idle", "done"}
  /\ runs < MaxRuns
  /\ runs' = runs + 1
  /\ \E kind \in {"analyze_document", "process_document_task"},
        document_id \in DocIds \cup {"d0"} :
       LET request == [NoRequest EXCEPT !.kind = kind,
                                        !.document_id = document_id,
                                        !.run = runs + 1]
       IN  IF document_id \notin DOMAIN documents
             THEN /\ requests' =
                       [requests EXCEPT ![slot] =
                          Ended(request,
                                IF kind = "analyze_document"
                                  THEN HTTPException(404) ELSE None)]
                  /\ UNCHANGED documents
           ELSE IF kind = "analyze_document"
             THEN /\ requests' =
                       [requests EXCEPT ![slot] =
                          IF documents[document_id].status = "processing"
                            THEN Ended(request, HTTPException(409))
                            ELSE [request EXCEPT !.pc = "begun"]]
                  /\ UNCHANGED documents
           ELSE /\ requests' =
                     [requests EXCEPT ![slot] = [request EXCEPT !.pc = "begun"]]
                /\ documents' =
                     [documents EXCEPT ![document_id].status = "processing"]
  /\ UNCHANGED <<emission_factors, op, args, ret, records>>

\* Extract without the test of lines 165-169 and 69-73: the run goes on
\* with whatever was extracted
Extract_without_test(slot) ==
  /\ requests[slot].pc = "begun"
  /\ requests' =
       [requests EXCEPT
          ![slot].pc = "extracted",
          ![slot].extracted_data =
            extracted_data_of[StoredFile(documents[requests[slot].document_id])]]
  /\ UNCHANGED <<emission_factors, op, args, ret, documents, records, runs>>

\* lines 165-169 and 69-73: the run goes on with its extracted data.  With
\* no data analyze_document raises the HTTPException 400, which line 226
\* lets through, and process_document_task commits the status FAILED.
Extracted(slot, extracted_data) ==
  LET request == requests[slot]
  IN  IF extracted_data # <<>>
        THEN /\ requests' =
                  [requests EXCEPT ![slot] =
                     [request EXCEPT !.pc = "extracted",
                                     !.extracted_data = extracted_data]]
             /\ UNCHANGED documents
      ELSE IF request.kind = "analyze_document"
        THEN /\ requests' =
                  [requests EXCEPT ![slot] =
                     Ended(request, HTTPException(400))]
             /\ UNCHANGED documents
      ELSE /\ requests' = [requests EXCEPT ![slot] = Ended(request, None)]
           /\ documents' =
                [documents EXCEPT
                   ![request.document_id].status = "failed",
                   ![request.document_id].error_message =
                     Some("No data could be extracted from document")]

\* lines 146-169 and 49-73: the data are extracted from the stored file of
\* the run's document
Extract(slot) ==
  /\ requests[slot].pc = "begun"
  /\ Extracted(slot,
               extracted_data_of[
                 StoredFile(documents[requests[slot].document_id])])
  /\ UNCHANGED <<emission_factors, op, args, ret, records, runs>>

\* lines 171-196 and 75-95: the loop over the entries
CalculateRecords(slot) ==
  /\ requests[slot].pc = "extracted"
  /\ \E list \in LoopFrom(requests[slot].extracted_data, emission_factors, 1) :
       requests' = [requests EXCEPT ![slot].pc = "calculated",
                                    ![slot].records = list]
  /\ UNCHANGED <<emission_factors, op, args, ret, documents, records, runs>>

\* Save with one list of records shared by the runs: the run saves, under
\* its own document, the records of every run that has calculated some
Save_shared_list(slot) ==
  /\ requests[slot].pc = "calculated"
  /\ LET request == requests[slot]
         shared == requests[1].records \o requests[2].records
     IN  /\ records' =
              records \cup
                {[id |-> <<request.run, k>>,
                  document_id |-> request.document_id,
                  record |-> shared[k]] : k \in DOMAIN shared}
         /\ documents' =
              [documents EXCEPT
                 ![request.document_id].status = "completed",
                 ![request.document_id].processed_date = Some(request.run)]
         /\ requests' =
              [requests EXCEPT ![slot] =
                 Ended(request,
                       IF request.kind = "analyze_document"
                         THEN Some([status_code |-> 200,
                                    body |-> AnalyzeResponse(
                                               request.document_id, shared)])
                         ELSE None)]
  /\ UNCHANGED <<emission_factors, op, args, ret, runs>>

\* lines 198-224 and 97-103: the records are saved and committed with the
\* status COMPLETED and the processed date; analyze_document answers with
\* the totals
Save(slot) ==
  /\ requests[slot].pc = "calculated"
  /\ LET request == requests[slot]
     IN  /\ records' =
              records \cup
                {[id |-> <<request.run, k>>,
                  document_id |-> request.document_id,
                  record |-> request.records[k]] :
                   k \in DOMAIN request.records}
         /\ documents' =
              [documents EXCEPT
                 ![request.document_id].status = "completed",
                 ![request.document_id].processed_date = Some(request.run)]
         /\ requests' =
              [requests EXCEPT ![slot] =
                 Ended(request,
                       IF request.kind = "analyze_document"
                         THEN Some([status_code |-> 200,
                                    body |-> AnalyzeResponse(
                                               request.document_id,
                                               request.records)])
                         ELSE None)]
  /\ UNCHANGED <<emission_factors, op, args, ret, runs>>

\* lines 199-202 and 98-101 when the database refuses the rows (a value
\* that does not fit its column, a lost connection): bulk_save_objects or
\* commit raises, nothing of the transaction is kept and the run goes on in
\* its except clause
SaveRaises(slot) ==
  /\ requests[slot].pc = "calculated"
  /\ \E call \in {"bulk_save_objects", "commit"} :
       requests' = [requests EXCEPT ![slot].pc = "except",
                                    ![slot].raised_in = call]
  /\ UNCHANGED <<emission_factors, op, args, ret, documents, records, runs>>

\* lines 228-236 and 105-109: the except clause sets the status FAILED and
\* the error message and commits, without a rollback.  After an exception
\* in bulk_save_objects the session is inactive until it is rolled back and
\* the commit raises in its turn: nothing is written and the exception
\* leaves the function.  After an exception in commit the session has been
\* rolled back and the commit of the except clause goes through.
Except(slot) ==
  /\ requests[slot].pc = "except"
  /\ LET request == requests[slot]
     IN  IF request.raised_in = "bulk_save_objects"
           THEN /\ requests' =
                     [requests EXCEPT ![slot] =
                        Ended(request,
                              IF request.kind = "analyze_document"
                                THEN Some([status_code |-> 500,
                                           unhandled |-> TRUE])
                                ELSE None)]
                /\ UNCHANGED documents
           ELSE /\ requests' =
                     [requests EXCEPT ![slot] =
                        Ended(request,
                              IF request.kind = "analyze_document"
                                THEN HTTPException(500) ELSE None)]
                /\ documents' =
                     [documents EXCEPT
                        ![request.document_id].status = "failed",
                        ![request.document_id].error_message = Some("str(e)")]
  /\ UNCHANGED <<emission_factors, op, args, ret, records, runs>>

\* main.py line 29: the application starts, and init_db seeds the factor
\* table, before any request is served
Seed ==
  /\ \A slot \in Slots : requests[slot].pc = "idle"
  /\ \E file \in SeedFiles :
       emission_factors' = seed_emission_factors(emission_factors, file)
  /\ UNCHANGED <<op, args, ret, documents, records, requests, runs>>

InitPipeline ==
  /\ emission_factors \in PipelineTables
  /\ Idle
  /\ documents \in SampleDocumentTables
  /\ records = {}
  /\ requests = [slot \in Slots |-> NoRequest]
  /\ runs = 0

NextPipeline ==
  \/ Seed
  \/ \E slot \in Slots :
       \/ Begin(slot)
       \/ Extract(slot)
       \/ CalculateRecords(slot)
       \/ Save(slot)
       \/ SaveRaises(slot)
       \/ Except(slot)

\* documents analysed by up to MaxRuns runs, any two of them at the same
\* time, against either factor table
SpecPipeline == InitPipeline /\ [][NextPipeline]_vars

---------------------------------------------------------------------------
(* Properties of the Emission Calculator (under Spec) *)

\* the record a finished call of calculate_emissions returned, if any
Calculated == op = "calculate_emissions" /\ ret.first # None

\* the rows of the table whose (category, unit) are the resolved category
\* and the normalized unit of the entry of the call
MatchingRows ==
  {r \in emission_factors :
     /\ r.category = ret.first[1].category
     /\ r.unit = _normalize_unit(args.data.unit[1])}

\* the entries that have a usage and a unit, a category that resolves and a
\* row of the table for it
Computable ==
  /\ op = "calculate_emissions"
  /\ args.data.usage # None
  /\ TruthyStr(args.data.unit)
  /\ LET supplier == Get(args.data, "supplier", Some(<<>>))
         resolved ==
           IF ~TruthyStr(args.data.category) /\ supplier = None
             THEN None
             ELSE _normalize_category(
                    args.data.category, args.data.unit[1],
                    IF supplier = None THEN <<>> ELSE supplier[1])
     IN  /\ resolved # None
         /\ \E r \in emission_factors :
              /\ r.category = resolved[1]
              /\ r.unit = _normalize_unit(args.data.unit[1])

\* x is usage * factor / 1000 to the nearest thousandth: no thousandth is
\* nearer the exact product
NearestThousandth(x, usage, factor) ==
  LET scale == Pow10(usage.frac + factor.frac)
  IN  /\ x.frac <= 3
      /\ 2 * Abs(x.mant * Pow10(3 - x.frac) * scale
                   - usage.mant * factor.mant) <= scale

\* C1: every entry with usage and unit present, a resolvable category and a
\* matching factor row gets a record whose co2e is usage * factor / 1000
\* rounded to 3 decimals, factor being the factor of the record; usage 1000
\* with factor 0.233 gives 0.233.
C1_Co2eAsClaimed ==
  Computable =>
    /\ ret.first # None
    /\ NearestThousandth(ret.first[1].co2e, args.data.usage[1],
                         ret.first[1].emission_factor)
    /\ (/\ args.data.usage[1] = [mant |-> 1000, frac |-> 0]
        /\ ret.first[1].emission_factor = [mant |-> 233, frac |-> 3])
         => ret.first[1].co2e = [mant |-> 233, frac |-> 3]

\* C2: the record's emission_factor and factor_source are those of one row
\* of maximum year among the rows matching the resolved category and the
\* normalized unit; with (electricity, kWh, EEA, 2022, 0.25) and
\* (electricity, kWh, EEA, 2023, 0.21) as the matching rows the factor is
\* 0.21 and the source "EEA 2023".
C2_MaxYearRow ==
  Calculated =>
    /\ \E r \in MatchingRows :
         /\ \A other \in MatchingRows : other.year <= r.year
         /\ ret.first[1].emission_factor = r.factor
         /\ ret.first[1].factor_source
              = r.source \o <<" ">> \o StrOfInt(r.year)
    /\ {<<r.source, r.year, r.factor>> : r \in MatchingRows}
         = {<<<<"E","E","A">>, 2022, [mant |-> 25, frac |-> 2]>>,
            <<<<"E","E","A">>, 2023, [mant |-> 21, frac |-> 2]>>}
       => /\ ret.first[1].emission_factor = [mant |-> 21, frac |-> 2]
          /\ ret.first[1].factor_source = <<"E","E","A"," ","2","0","2","3">>

\* C2 witness: usage 100 kWh against the 2022 and 2023 EEA rows is
\* calculated with the 2023 factor
C2_Witness ==
  /\ Calculated
  /\ Cardinality(MatchingRows) = 2
  /\ \A r \in MatchingRows : r.source = <<"E","E","A">>
  /\ args.data.usage = Some([mant |-> 100, frac |-> 0])
  /\ ret.first[1].emission_factor = [mant |-> 21, frac |-> 2]
  /\ ret.first[1].factor_source = <<"E","E","A"," ","2","0","2","3">>

\* C3: two evaluations of calculate_emissions on the same entry and the same
\* table return the same result.
C3_Deterministic ==
  (op = "calculate_emissions" /\ "second" \in DOMAIN ret)
    => ret.second = ret.first

\* the fixed category -> scope table
ScopeTable ==
  (natural_gas :> 1) @@ (diesel :> 1) @@ (petrol :> 1)
    @@ (electricity :> 2)
    @@ (freight_transport :> 3) @@ (purchased_goods :> 3)

\* C10: every record returned has a category of the closed set and the
\* scope the fixed table gives it; a category outside the table has
\* scope 3.
C10_CategoryAndScope ==
  /\ Calculated =>
       /\ ret.first[1].category \in CanonicalCategories
       /\ ret.first[1].scope \in {1, 2, 3}
       /\ ret.first[1].scope = ScopeTable[ret.first[1].category]
  /\ \A c \in SampleCategories :
       (c # None /\ c[1] \notin CanonicalCategories)
         => _determine_scope(c[1]) = 3

\* C10 witness: a diesel record is returned, with scope 1
C10_Witness ==
  /\ Calculated
  /\ ret.first[1].category = diesel
  /\ ret.first[1].scope = 1

\* C11: an entry is rejected as insufficient data exactly when its usage or
\* its unit is absent: an entry lacking either gets no record, and an entry
\* with both (a usage of zero included) goes on to category resolution and
\* factor lookup, so that it gets a record whenever its category resolves
\* and the table has a row for it.
C11_RejectedIffAbsent ==
  op = "calculate_emissions" =>
    /\ (args.data.usage = None \/ args.data.unit = None)
         => ret.first = None
    /\ Computable => ret.first # None

---------------------------------------------------------------------------
(* Properties of the calculation loop (under SpecAnalyze) *)

\* the entries calculate_emissions has a result for: a usage and a unit, a
\* category that resolves, and a row of the table for the resolved category
\* and the normalized unit
CalculableEntry(data) ==
  LET category == Get(data, "category", None)
      usage == Get(data, "usage", None)
      unit == Get(data, "unit", None)
      supplier == Get(data, "supplier", Some(<<>>))
      resolved ==
        IF ~TruthyStr(category) /\ supplier = None
          THEN None
          ELSE _normalize_category(
                 category, unit[1],
                 IF supplier = None THEN <<>> ELSE supplier[1])
  IN  /\ TruthyFloat(usage)
      /\ TruthyStr(unit)
      /\ resolved # None
      /\ \E r \in emission_factors :
           r.category = resolved[1] /\ r.unit = _normalize_unit(unit[1])

\* the entries the loop is past
EntriesDone == SubSeq(args.extracted_data, 1, args.i - 1)

\* C12: calculate_emissions raises for no entry, however malformed, so the
\* run never ends in the exception handler; an entry whose category does
\* not resolve or that has no factor row gets no record, and every other
\* entry of the document, before or after it, gets its record: the records
\* are those of the calculable entries, in the order of the entries.
C12_NeverRaises ==
  /\ op # "failed"
  /\ op \in {"analyze_document", "completed"} =>
       LET kept == SelectSeq(EntriesDone, CalculableEntry)
       IN  /\ Len(ret.records) = Len(kept)
           /\ \A k \in 1..Len(kept) :
                /\ ret.records[k].usage = Get(kept[k], "usage", None)
                /\ ret.records[k].unit = Get(kept[k], "unit", None)
                /\ ret.records[k].supplier = Get(kept[k], "supplier", None)

\* C12 witness: a document whose first entry has neither category nor
\* supplier to infer one from, and whose second entry is calculable, is
\* completed with the record of the second
C12_Witness ==
  /\ op = "completed"
  /\ Len(args.extracted_data) = 2
  /\ Get(args.extracted_data[1], "category", None) = None
  /\ "supplier" \in DOMAIN args.extracted_data[1]
  /\ args.extracted_data[1].supplier = None
  /\ Len(ret.records) = 1
  /\ ret.records[1].usage = args.extracted_data[2].usage

---------------------------------------------------------------------------
(* Properties of the Column Mapper (under SpecColumns) *)

\* header matches a synonym of the field COLUMN_SYNONYMS[k]
HeaderMatches(header, k) ==
  /\ header # <<>>
  /\ InList(Strip(Lower(header)), COLUMN_SYNONYMS[k].synonyms)

\* C13: for every canonical field some header matches, the first matching
\* header in header order is mapped to that field; every header of the
\* mapping is mapped to one field, of which it matches a synonym; a header
\* matching no synonym is not in the mapping.
C13_FirstHeaderWinsField ==
  op = "_map_columns" =>
    /\ \A k \in DOMAIN COLUMN_SYNONYMS :
         \A i \in DOMAIN args.headers :
           (/\ HeaderMatches(args.headers[i], k)
            /\ \A j \in 1..(i - 1) : ~HeaderMatches(args.headers[j], k))
             => /\ args.headers[i] \in DOMAIN ret
                /\ ret[args.headers[i]] = COLUMN_SYNONYMS[k].name
    /\ \A h \in DOMAIN ret :
         \E k \in DOMAIN COLUMN_SYNONYMS :
           ret[h] = COLUMN_SYNONYMS[k].name /\ HeaderMatches(h, k)
    /\ \A i \in DOMAIN args.headers :
         (\A k \in DOMAIN COLUMN_SYNONYMS : ~HeaderMatches(args.headers[i], k))
           => args.headers[i] \notin DOMAIN ret

---------------------------------------------------------------------------
(* Properties of the Locale Normalizer (under SpecLocale) *)

\* a plain numeric string with a '.' decimal point: digits, '.', digits
PlainDecimal(s) ==
  /\ Len(SelectSeq(s, IsDot)) = 1
  /\ \A i \in 1..Len(s) : s[i] \in Digits \cup {"."}
  /\ s[1] # "." /\ s[Len(s)] # "."

\* C4 (as claimed): the number parser maps "1.234,56" to 1234.56, "1234.56"
\* to 1234.56 and the empty string to None, and every plain numeric string
\* with a '.' decimal point to the value it denotes.
C4_NumbersAsClaimed ==
  (op = "_parse_number" /\ args.value.type = "str") =>
    /\ args.value.v = <<"1",".","2","3","4",",","5","6">>
         => ret.value = Some([mant |-> 123456, frac |-> 2])
    /\ args.value.v = <<"1","2","3","4",".","5","6">>
         => ret.value = Some([mant |-> 123456, frac |-> 2])
    /\ args.value.v = <<>> => ret.value = None
    /\ PlainDecimal(args.value.v) => ret.value = float(args.value.v).value

\* C5: the number parser never raises: whatever the value (a string without
\* digits, a lone '-', '.', ',', several minus signs) the call returns a
\* number or None; the date parser never raises; and a row with an
\* unparsable numeric or date cell is processed as any other row (kept if
\* and only if its usage or cost cell is filled, its other cells converted
\* as usual) with the field of that cell holding None.
C5_NeverRaises ==
  /\ op = "_parse_number" =>
       /\ ~ret.raises
       /\ \/ ret.value = None
          \/ ret.value[1].mant \in Int /\ ret.value[1].frac \in Nat
  /\ op = "_parse_date_value" => ~ret.raises
  /\ op = "_extract_record_from_row" =>
       LET filled == FilledColumns(args.row, args.column_map)
           Cell(c) == CellOf(args.row, args.column_map, c)[1]
       IN  /\ ~ret.raises
           /\ ret.value # None <=> ("usage" \in filled \/ "cost" \in filled)
           /\ ret.value # None =>
                /\ filled \subseteq DOMAIN ret.value[1]
                /\ \A c \in filled \cap {"usage", "cost"} :
                     parse_number_try(Cell(c)).raises
                       => ret.value[1][c] = None
                /\ \A c \in filled \cap {"date"} :
                     (Cell(c).type = "str"
                        /\ \A i \in 1..4 :
                             strptime(Strip(Cell(c).v), DateFormats[i]).raises)
                       => ret.value[1][c] = None
                /\ \A c \in filled \ {"usage", "cost", "date"} :
                     ret.value[1][c] = Some(Strip(Cell(c).v))

\* C5 witness: the number parser called on "--1", which float() rejects,
\* returned None
C5_Witness ==
  /\ op = "_parse_number"
  /\ args.value = [type |-> "str", v |-> <<"-", "-", "1">>]
  /\ ret = Returned(None)

\* C6: the date parser returns the parse of the first of the formats
\* DD/MM/YYYY, YYYY-MM-DD, DD-MM-YYYY, DD.MM.YYYY (in this order) that parses
\* the trimmed string, and None when none of them does: "15/03/2024",
\* "2024-03-15", "15-03-2024" and "15.03.2024" all give 2024-03-15, and
\* "not-a-date" gives None.
C6_DateFormats ==
  (op = "_parse_date_value" /\ args.value.type = "str") =>
    LET date_str == Strip(args.value.v)
        formats == << <<"%d", "/", "%m", "/", "%Y">>,
                      <<"%Y", "-", "%m", "-", "%d">>,
                      <<"%d", "-", "%m", "-", "%Y">>,
                      <<"%d", ".", "%m", ".", "%Y">> >>
        parsing == {i \in 1..4 : ~strptime(date_str, formats[i]).raises}
        first == CHOOSE i \in parsing : \A j \in parsing : i <= j
    IN  /\ ~ret.raises
        /\ parsing = {} => ret.value = None
        /\ parsing # {}
             => ret.value = Some(strptime(date_str, formats[first]).value)
        /\ args.value.v \in {<<"1","5","/","0","3","/","2","0","2","4">>,
                             <<"2","0","2","4","-","0","3","-","1","5">>,
                             <<"1","5","-","0","3","-","2","0","2","4">>,
                             <<"1","5",".","0","3",".","2","0","2","4">>}
             => ret.value = Some([year |-> 2024, month |-> 3, day |-> 15])
        /\ args.value.v = <<"n","o","t","-","a","-","d","a","t","e">>
             => ret.value = None

\* C6 witness: "15.03.2024", which only the last format parses, gave
\* 2024-03-15
C6_Witness ==
  /\ op = "_parse_date_value"
  /\ args.value = [type |-> "str", v |-> <<"1","5",".","0","3",".","2","0","2","4">>]
  /\ ret = Returned(Some([year |-> 2024, month |-> 3, day |-> 15]))

\* C14: every entry the row parser returns has a usage or a cost that is an
\* actual number, and a row whose usage and cost cells both give no value
\* (missing, empty or unparsable) is dropped.
C14_UsageOrCostValue ==
  op = "_extract_record_from_row" =>
    /\ ~ret.raises
    /\ ret.value # None
         <=> \E c \in {"usage", "cost"} :
               /\ CellOf(args.row, args.column_map, c) # None
               /\ _parse_number(CellOf(args.row, args.column_map, c)[1]).value
                    # None
    /\ ret.value # None
         => \E c \in {"usage", "cost"} :
              c \in DOMAIN ret.value[1] /\ ret.value[1][c] # None

\* C15: where a row has no category but a supplier and a unit, the category
\* the row parser fills in is the one the Category Resolver infers for the
\* same unit and supplier, and the parser leaves the category absent where
\* the resolver infers none.
C15_EagerFillIsInference ==
  (/\ op = "_extract_record_from_row"
   /\ ret.value # None
   /\ CellOf(args.row, args.column_map, "category") = None
   /\ {"supplier", "unit"} \subseteq DOMAIN ret.value[1])
    => LET inferred == _infer_category(ret.value[1]["unit"][1],
                                       ret.value[1]["supplier"][1])
       IN  IF inferred = None
             THEN "category" \notin DOMAIN ret.value[1]
             ELSE /\ "category" \in DOMAIN ret.value[1]
                  /\ ret.value[1]["category"] = inferred

---------------------------------------------------------------------------
(* Properties of the CSV scenario (under SpecCsv) *)

\* the file with the headers fecha,proveedor,consumo,unidad and the single
\* row 15/03/2024,Endesa,1500,kWh
ScenarioCsv ==
  <<<<"f","e","c","h","a",",","p","r","o","v","e","e","d","o","r",",","c","o","n","s","u","m","o",",","u","n","i","d","a","d">>,
    <<"1","5","/","0","3","/","2","0","2","4",",","E","n","d","e","s","a",",","1","5","0","0",",","k","W","h">>>>

\* the table has one row for (electricity, kWh), of factor 0.233
OnlyElectricityFactor ==
  {r.factor : r \in {x \in emission_factors :
                       x.category = electricity /\ x.unit = <<"k","W","h">>}}
    = {[mant |-> 233, frac |-> 3]}

\* C16: the scenario file parses to exactly one entry, with date 2024-03-15,
\* supplier Endesa, usage 1500 and unit kWh, and the entry calculated
\* against a table whose only (electricity, kWh) factor is 0.233 gives
\* category electricity, scope 2 and co2e 0.35.
C16_CsvScenario ==
  (op \in {"parse_csv", "calculated"} /\ args.lines = ScenarioCsv) =>
    /\ Len(ret.extracted_data) = 1
    /\ {"date", "supplier", "usage", "unit"}
         \subseteq DOMAIN ret.extracted_data[1]
    /\ ret.extracted_data[1]["date"]
         = Some([year |-> 2024, month |-> 3, day |-> 15])
    /\ ret.extracted_data[1]["supplier"] = Some(<<"E","n","d","e","s","a">>)
    /\ ret.extracted_data[1]["usage"] = Some([mant |-> 1500, frac |-> 0])
    /\ ret.extracted_data[1]["unit"] = Some(<<"k","W","h">>)
    /\ (op = "calculated" /\ OnlyElectricityFactor) =>
         /\ ret.results[1] # None
         /\ ret.results[1][1].category = electricity
         /\ ret.results[1][1].scope = 2
         /\ ret.results[1][1].co2e = [mant |-> 35, frac |-> 2]

---------------------------------------------------------------------------
(* Properties of the Free-Text Extractor (under SpecText) *)

\* the offsets at which sub occurs in text
Occurrences(sub, text) ==
  {i \in 0..(Len(text) - Len(sub)) : SubSeq(text, i + 1, i + Len(sub)) = sub}

GasFragment == <<"C","o","n","s","u","m","o",":"," ","2","5","0"," ","m","sup3">>

TotalFragment == <<"T","o","t","a","l",":"," ","4","5",",","2","0","euro">>

\* the texts of the scenario: "Consumo: 250 m3" (with the superscript 3),
\* at offset p, and "Total: 45,20" with its euro sign lying inside the 200
\* characters either side of p; no kWh, no consumed energy and no fuel; no
\* brand
GasScenario(text, p) ==
  /\ p \in Occurrences(GasFragment, text)
  /\ \E q \in Occurrences(TotalFragment, text) :
       q >= p - 200 /\ q + Len(TotalFragment) <= p + 200
  /\ ~InLower(<<"k","w","h">>, text)
  /\ ~InLower(<<"e","n","e","r","g","i_acute","a"," ","c","o","n","s","u","m","i","d","a">>, text)
  /\ ~InLower(<<"l","i","t","r","o">>, text)
  /\ \A k \in DOMAIN FuelNames : ~InLower(FuelNames[k], text)
  /\ \A k \in DOMAIN Suppliers : ~InLower(Lower(Suppliers[k]), text)

\* exactly one entry, of natural gas: usage 250 m3, cost 45.20, supplier
\* "Unknown"
GasScenarioEntry ==
  /\ Len(ret) = 1
  /\ ret[1].category = Some(natural_gas)
  /\ ret[1].usage = Some([mant |-> 250, frac |-> 0])
  /\ ret[1].unit = Some(<<"m", "3">>)
  /\ ret[1].cost = Some([mant |-> 452, frac |-> 1])
  /\ ret[1].supplier = Some(<<"U","n","k","n","o","w","n">>)

\* C17 (as claimed): every text of the scenario yields exactly the one
\* natural-gas entry with usage 250, unit m3, cost 45.20 and supplier
\* "Unknown".
C17_GasScenarioAsClaimed ==
  op = "parse_text" =>
    \A p \in Occurrences(GasFragment, args.text) :
      GasScenario(args.text, p) => GasScenarioEntry

\* C17 (amended): a text of the scenario, in which "Consumo: 250 m3" is the
\* only quantity in cubic metres and no euro sign stands in the window
\* before the one of "Total: 45,20", yields exactly the one natural-gas
\* entry with usage 250, unit m3, cost 45.20 and supplier "Unknown".
C17_GasScenario ==
  op = "parse_text" =>
    \A p \in Occurrences(GasFragment, args.text) :
      (/\ GasScenario(args.text, p)
       /\ Cardinality(Occurrences(<<"m", "sup3">>, Lower(args.text))
                        \cup Occurrences(<<"m", "3">>, Lower(args.text))) = 1
       /\ \E q \in Occurrences(TotalFragment, args.text) :
            /\ q >= p - 200
            /\ q + Len(TotalFragment) <= p + 200
            /\ \A e \in Occurrences(<<"euro">>, args.text) :
                 e >= p - 200 => e >= q + Len(TotalFragment) - 1)
        => GasScenarioEntry

\* C17 witness: the total stands before the consumption, within the window,
\* and the one entry has it as its cost
C17_Witness ==
  /\ op = "parse_text"
  /\ args.text = TotalFragment \o <<"\n">> \o Filler(100) \o <<"\n">>
                   \o GasFragment
  /\ GasScenarioEntry

\* the place of a record in the order electricity, natural gas, fuel, by
\* its category and unit; 0 for any other record
Rank(record) ==
  IF record.category = Some(electricity) /\ record.unit = Some(<<"k","W","h">>)
    THEN 1
  ELSE IF record.category = Some(natural_gas) /\ record.unit = Some(<<"m","3">>)
    THEN 2
  ELSE IF record.category \in {Some(diesel), Some(petrol)}
            /\ record.unit = Some(<<"L">>)
    THEN 3
  ELSE 0

\* the records of the given rank in the result
OfRank(n) == {i \in DOMAIN ret : Rank(ret[i]) = n}

\* C18: for every text the extractor returns at most three entries, at most
\* one of electricity (kWh), one of natural gas (m3) and one of fuel
\* (diesel or petrol, L), in that order; an entry is there exactly when its
\* own extractor matches, whatever the other two do, and carries that
\* extractor's usage and cost; a text that matches nothing yields the empty
\* sequence.
C18_AtMostThreeInOrder ==
  op = "parse_text" =>
    LET kwh == _extract_kwh(args.text)
        gas == _extract_gas(args.text)
        fuel == _extract_fuel(args.text)
    IN  /\ Len(ret) <= 3
        /\ \A i \in DOMAIN ret : Rank(ret[i]) # 0
        /\ \A i, j \in DOMAIN ret : i < j => Rank(ret[i]) < Rank(ret[j])
        /\ (OfRank(1) # {}) = (kwh # None)
        /\ (OfRank(2) # {}) = (gas # None)
        /\ (OfRank(3) # {}) = (fuel # None)
        /\ \A i \in OfRank(1) :
             /\ ret[i].usage = kwh[1].usage
             /\ ret[i].cost = kwh[1].cost
        /\ \A i \in OfRank(2) :
             /\ ret[i].usage = gas[1].usage
             /\ ret[i].cost = gas[1].cost
        /\ \A i \in OfRank(3) :
             /\ ret[i].usage = fuel[1].usage
             /\ ret[i].cost = fuel[1].cost
        /\ (kwh = None /\ gas = None /\ fuel = None) => ret = <<>>

\* C18 witness: a text that all three extractors match, with the three
\* entries in the order electricity, natural gas, fuel
C18_Witness ==
  /\ op = "parse_text"
  /\ Len(ret) = 3
  /\ Rank(ret[1]) = 1 /\ Rank(ret[2]) = 2 /\ Rank(ret[3]) = 3

\* the quantity the claim has an extractor report: that of the first
\* pattern, from the k-th on, that matches the text with a captured quantity
\* above zero; quantity[k] is the group of the k-th pattern that captures the
\* quantity
RECURSIVE FirstPositiveQuantity(_, _, _, _)
FirstPositiveQuantity(patterns, quantity, text, k) ==
  IF k > Len(patterns) THEN None
  ELSE LET match == search(patterns[k], text)
           value == _parse_number(
                      [type |-> "str",
                       v |-> match[1].groups[quantity[k]]]).value
       IN  IF match # <<>> /\ Positive(value)
             THEN Some(value)
             ELSE FirstPositiveQuantity(patterns, quantity, text, k + 1)

\* the groups that capture the quantity: the first of every kWh and gas
\* pattern, the second of "<fuel> <quantity> l" and the first of
\* "<quantity> litros de <fuel>"
KwhQuantity == [k \in DOMAIN KwhPatterns |-> 1]

GasQuantity == [k \in DOMAIN GasPatterns |-> 1]

FuelQuantity == <<2, 1>>

\* C19: whenever some pattern of an extractor's list matches the text with a
\* captured quantity above zero, the extractor emits an entry whose usage is
\* the quantity captured by the first such pattern of the list; so for the
\* electricity, the gas and the fuel patterns, "<quantity> litros de <fuel>"
\* included.
C19_FirstPositivePatternWins ==
  op = "parse_text" =>
    /\ FirstPositiveQuantity(KwhPatterns, KwhQuantity, args.text, 1) # None
         => /\ OfRank(1) # {}
            /\ \A i \in OfRank(1) :
                 ret[i].usage = FirstPositiveQuantity(
                                  KwhPatterns, KwhQuantity, args.text, 1)[1]
    /\ FirstPositiveQuantity(GasPatterns, GasQuantity, args.text, 1) # None
         => /\ OfRank(2) # {}
            /\ \A i \in OfRank(2) :
                 ret[i].usage = FirstPositiveQuantity(
                                  GasPatterns, GasQuantity, args.text, 1)[1]
    /\ FirstPositiveQuantity(FuelPatterns, FuelQuantity, args.text, 1) # None
         => /\ OfRank(3) # {}
            /\ \A i \in OfRank(3) :
                 ret[i].usage = FirstPositiveQuantity(
                                  FuelPatterns, FuelQuantity, args.text, 1)[1]

\* the fuel patterns that match the text with a group that reads as the
\* given usage
FuelPatternsGiving(text, usage) ==
  {k \in DOMAIN FuelPatterns :
     LET match == search(FuelPatterns[k], text)
     IN  /\ match # <<>>
         /\ \E g \in DOMAIN match[1].groups :
              _parse_number([type |-> "str",
                             v |-> match[1].groups[g]]).value = usage}

\* the span matched by the winning fuel pattern: the first pattern of the
\* list that gives the entry's usage
WinningFuelSpan(text, usage) ==
  LET winner == CHOOSE k \in FuelPatternsGiving(text, usage) :
                  \A j \in FuelPatternsGiving(text, usage) : k <= j
  IN  Group0(text, search(FuelPatterns[winner], text)[1])

\* C20: the category of the fuel entry is diesel exactly when the span
\* matched by the winning fuel pattern contains "diesel" or "gasoleo" (with
\* its accent) in any case, and petrol otherwise, whatever stands in the
\* text outside the span.
C20_FuelTypeFromSpan ==
  op = "parse_text" =>
    \A i \in OfRank(3) :
      /\ FuelPatternsGiving(args.text, ret[i].usage) # {}
      /\ LET span == WinningFuelSpan(args.text, ret[i].usage)
         IN  ret[i].category =
               Some(IF \/ InLower(<<"d","i","e","s","e","l">>, span)
                       \/ InLower(<<"g","a","s","o_acute","l","e","o">>, span)
                      THEN diesel ELSE petrol)

\* C20 witness: a petrol entry from a text that has "diesel" outside the
\* matched span
C20_Witness ==
  /\ op = "parse_text"
  /\ InLower(<<"d","i","e","s","e","l">>, args.text)
  /\ \E i \in OfRank(3) :
       /\ ret[i].category = Some(petrol)
       /\ ~InLower(<<"d","i","e","s","e","l">>, WinningFuelSpan(args.text, ret[i].usage))

\* the known brands that occur in the text, in any case, by their place in
\* the list of brands
BrandsIn(text) ==
  {k \in DOMAIN Suppliers :
     Occurrences(Lower(Suppliers[k]), Lower(text)) # {}}

\* the labelled-number patterns that match the text
InvoicePatternsIn(text) ==
  {k \in DOMAIN InvoicePatterns : search(InvoicePatterns[k], text) # <<>>}

\* the first string of the shape DD/MM/YYYY in the text read as a date:
\* none when there is no such string or it is no date of the calendar
FirstDate(text) ==
  LET match == search(DatePattern, text)
      day == IntOfDigits(match[1].groups[1])
      month == IntOfDigits(match[1].groups[2])
      year == IntOfDigits(match[1].groups[3])
  IN  IF /\ match # <<>>
         /\ year >= 1 /\ month \in 1..12
         /\ day \in 1..DaysInMonth(year, month)
        THEN Some([year |-> year, month |-> month, day |-> day])
        ELSE None

\* C21: all entries of one extraction carry the same supplier,
\* invoice_number and date; the supplier is the first known brand that
\* occurs in the text, "Unknown" and never absent when none does; the
\* invoice number is what the first labelled-number pattern that matches
\* captures; the date is the first date of the shape DD/MM/YYYY in the text.
C21_DocumentLevelFields ==
  op = "parse_text" =>
    \A i \in DOMAIN ret :
      /\ \A j \in DOMAIN ret :
           /\ ret[i].supplier = ret[j].supplier
           /\ ret[i].invoice_number = ret[j].invoice_number
           /\ ret[i].date = ret[j].date
      /\ ret[i].supplier # None
      /\ IF BrandsIn(args.text) = {}
           THEN ret[i].supplier = Some(<<"U","n","k","n","o","w","n">>)
           ELSE \E k \in BrandsIn(args.text) :
                  /\ \A j \in BrandsIn(args.text) : k <= j
                  /\ ret[i].supplier = Some(Suppliers[k])
      /\ IF InvoicePatternsIn(args.text) = {}
           THEN ret[i].invoice_number = None
           ELSE \E k \in InvoicePatternsIn(args.text) :
                  /\ \A j \in InvoicePatternsIn(args.text) : k <= j
                  /\ ret[i].invoice_number =
                       Some(search(InvoicePatterns[k], args.text)[1].groups[1])
      /\ ret[i].date = FirstDate(args.text)

\* C21 witness: two entries or more from a text with a brand, an invoice
\* number and a date
C21_Witness ==
  /\ op = "parse_text"
  /\ Len(ret) >= 2
  /\ BrandsIn(args.text) # {}
  /\ ret[2].supplier = Some(Suppliers[4])
  /\ ret[2].invoice_number = Some(<<"B", "2">>)
  /\ ret[2].date = Some([year |-> 2023, month |-> 2, day |-> 1])

\* the patterns of a list that match the text with a group that reads as
\* the given usage
PatternsGiving(patterns, text, usage) ==
  {k \in DOMAIN patterns :
     LET match == search(patterns[k], text)
     IN  /\ match # <<>>
         /\ \E g \in DOMAIN match[1].groups :
              _parse_number([type |-> "str",
                             v |-> match[1].groups[g]]).value = usage}

\* the offset at which the winning usage match starts: that of the first
\* pattern of the list that gives the usage
WinningStart(patterns, text, usage) ==
  LET winner == CHOOSE k \in PatternsGiving(patterns, text, usage) :
                  \A j \in PatternsGiving(patterns, text, usage) : k <= j
  IN  search(patterns[winner], text)[1].start

\* the patterns of the extractor that emits the records of a rank
PatternsOfRank(n) ==
  IF n = 1 THEN KwhPatterns ELSE IF n = 2 THEN GasPatterns ELSE FuelPatterns

\* text[max(0, p - 200) : min(len(text), p + 200)]
WindowText(text, p) ==
  SubSeq(text,
         (IF p - 200 > 0 THEN p - 200 ELSE 0) + 1,
         IF p + 200 < Len(text) THEN p + 200 ELSE Len(text))

\* the value the k-th cost pattern yields inside the window text, none when
\* it does not match there
CostYield(k, text, p) ==
  LET match == search(CostPatterns[k], WindowText(text, p))
  IN  IF match = <<>> THEN None
      ELSE _parse_number([type |-> "str", v |-> match[1].groups[1]]).value

\* the order of the cost patterns: amount then euro sign, euro sign then
\* amount, "Total" label, "Importe" label
CostPatternOrder ==
  /\ Len(CostPatterns) = 4
  /\ CostPatterns[1][Len(CostPatterns[1])] = Lit(<<"euro">>)
  /\ CostPatterns[2][1] = Lit(<<"euro">>)
  /\ CostPatterns[3][1] = Lit(<<"t","o","t","a","l">>)
  /\ CostPatterns[4][1] = Lit(<<"i","m","p","o","r","t","e">>)

\* C27: the cost of a free-text entry, when present, is above zero and is
\* parsed from a match of a cost pattern inside the window
\* text[max(0, p - 200) : min(len(text), p + 200)], p being the start of the
\* winning usage match; the patterns are tried in the order amount-euro,
\* euro-amount, "Total", "Importe", so that the cost is that of the first
\* pattern that yields a value above zero; it is absent when no pattern
\* yields a value above zero in the window.
C27_CostFromWindow ==
  op = "parse_text" =>
    /\ CostPatternOrder
    /\ \A i \in DOMAIN ret :
         LET p == WinningStart(PatternsOfRank(Rank(ret[i])), args.text,
                               ret[i].usage)
             yielding == {k \in DOMAIN CostPatterns :
                            Positive(CostYield(k, args.text, p))}
         IN  /\ ret[i].cost # None =>
                  /\ ret[i].cost[1].mant > 0
                  /\ \E k \in yielding :
                       /\ \A j \in yielding : k <= j
                       /\ ret[i].cost = CostYield(k, args.text, p)
             /\ yielding = {} => ret[i].cost = None

\* C27 witness: an entry whose usage match starts more than 200 characters
\* into the text, with a cost from the window that is not the cost the
\* whole text would give
C27_Witness ==
  /\ op = "parse_text"
  /\ \E i \in DOMAIN ret :
       LET p == WinningStart(PatternsOfRank(Rank(ret[i])), args.text,
                             ret[i].usage)
       IN  /\ p > 200
           /\ ret[i].cost # None
           /\ ret[i].cost = CostYield(1, args.text, p)
           /\ CostFrom(args.text, 1) # ret[i].cost

---------------------------------------------------------------------------
(* Properties of the unit normaliser (under SpecCategory) *)

\* the spellings the table has
UnitSpellings == {pair[1] : pair \in unit_map}

\* C24: _normalize_unit looks up the trimmed unit, whatever its case, in the
\* spelling table ("kwh" gives "kWh", "litro" gives "L"), returns every unit
\* the table does not have exactly as given, and is idempotent.
C24_NormalizeUnit ==
  op = "_normalize_unit" =>
    LET spelling == Strip(Lower(args.unit))
    IN  /\ spelling = <<"k","w","h">> => ret = <<"k","W","h">>
        /\ spelling = <<"l","i","t","r","o">> => ret = <<"L">>
        /\ \A pair \in unit_map : spelling = pair[1] => ret = pair[2]
        /\ spelling \notin UnitSpellings => ret = args.unit
        /\ _normalize_unit(ret) = ret

\* C24 witness: a unit in capitals with blanks around it that the table
\* does not have, returned as given
C24_Witness ==
  /\ op = "_normalize_unit"
  /\ args.unit = <<" ","U","S","D"," ">>
  /\ ret = <<" ","U","S","D"," ">>

---------------------------------------------------------------------------
(* Properties of a text document calculated (under SpecTextCalc) *)

\* C28: every entry of the free-text extractor has a usage above zero, a
\* unit among kWh, m3 and L and a category among electricity, natural_gas,
\* diesel and petrol; calculate_emissions gives it a result exactly when
\* the table has a row for its category and unit, so that it is dropped
\* only for want of a factor row.
C28_TextEntriesCalculable ==
  op \in {"extracted", "calculated_text"} =>
    \A k \in DOMAIN ret.extracted_data :
      LET entry == ret.extracted_data[k]
      IN  /\ entry.usage # None /\ entry.usage[1].mant > 0
          /\ entry.unit \in {Some(<<"k","W","h">>), Some(<<"m","3">>),
                             Some(<<"L">>)}
          /\ entry.category \in {Some(electricity), Some(natural_gas),
                                 Some(diesel), Some(petrol)}
          /\ op = "calculated_text" =>
               (ret.results[k] = None) =
                 (~\E row \in emission_factors :
                     /\ Some(row.category) = entry.category
                     /\ Some(row.unit) = entry.unit)

\* C28 witness: a text with two entries, one calculated and one dropped for
\* want of a factor row
C28_Witness ==
  /\ op = "calculated_text"
  /\ Len(ret.extracted_data) >= 2
  /\ \E k \in DOMAIN ret.results : ret.results[k] = None
  /\ \E k \in DOMAIN ret.results : ret.results[k] # None

---------------------------------------------------------------------------
(* Properties of the document pipeline (under SpecPipeline) *)

\* C22: a run whose document yields no entry ends in the failure "no data
\* could be extracted": for a document whose file gives an empty
\* extracted_data there is never a record, its status is never "completed"
\* and no run has set its processed date; a request of analyze_document for
\* it that got as far as the extraction (one that was not turned away with
\* 409) is answered with the 400 of that failure, never with 200, and a
\* background task on it leaves the status "failed" with that message,
\* until another task takes the document up.
C22_NoDataFails ==
  \A d \in DOMAIN documents :
    extracted_data_of[StoredFile(documents[d])] = <<>> =>
      /\ \A r \in records : r.document_id # d
      /\ documents[d].status # "completed"
      /\ documents[d].processed_date = None
      /\ \A slot \in Slots :
           LET request == requests[slot]
           IN  (request.pc = "done" /\ request.document_id = d) =>
                 IF request.kind = "analyze_document"
                   THEN request.response # HTTPException(409) =>
                          request.response = HTTPException(400)
                   ELSE /\ documents[d].status \in {"failed", "processing"}
                        /\ documents[d].status = "failed" =>
                             documents[d].error_message =
                               Some("No data could be extracted from document")

\* C22 witness: a request for a document without entries has been answered
\* with 400, and a background task on such a document has ended with the
\* status "failed"
C22_Witness ==
  /\ \E slot \in Slots :
       /\ requests[slot].pc = "done"
       /\ requests[slot].kind = "analyze_document"
       /\ requests[slot].document_id \in DOMAIN documents
       /\ extracted_data_of[StoredFile(documents[requests[slot].document_id])] = <<>>
       /\ requests[slot].response = HTTPException(400)
  /\ \E slot \in Slots :
       /\ requests[slot].pc = "done"
       /\ requests[slot].kind = "process_document_task"
       /\ requests[slot].document_id \in DOMAIN documents
       /\ extracted_data_of[StoredFile(documents[requests[slot].document_id])] = <<>>
       /\ documents[requests[slot].document_id].status = "failed"

\* C23: after any runs on a document its records are those of its most
\* recent successful run, the one that set its processed date: no record of
\* an earlier run of the document remains.
C23_LatestRunOnly ==
  \A r \in records :
    documents[r.document_id].processed_date = Some(r.id[1])

\* the tables that hold every row of a factor file
WholeFiles ==
  {{factors(file[1])[k] : k \in DOMAIN file[1]} :
     file \in {f \in SeedFiles :
                 /\ f # None
                 /\ \A k \in DOMAIN f[1] : f[1][k].factor # None
                 /\ \A i, j \in DOMAIN f[1] :
                      i # j =>
                        <<f[1][i].category, f[1][i].unit,
                          f[1][i].source, f[1][i].year>> #
                        <<f[1][j].category, f[1][j].unit,
                          f[1][j].source, f[1][j].year>>}}

\* C25: the factor table is immutable once loaded.  No step that changes
\* a run, the documents or the records changes a factor row; and the table
\* changes only from empty, to all the rows of a factor file (never to a
\* part of one): a table with rows stays as it is, and so does the empty
\* table when the load fails.
C25_FactorTableImmutable ==
  [][/\ (requests' # requests \/ documents' # documents \/ records' # records)
          => emission_factors' = emission_factors
     /\ emission_factors' # emission_factors
          => /\ emission_factors = {}
             /\ emission_factors' \in WholeFiles]_vars

\* C25 witness: the empty table was seeded with the rows of a file, and a
\* run has since calculated and saved records against it
C25_Witness ==
  /\ emission_factors \in WholeFiles \ PipelineTables
  /\ \E slot \in Slots :
       /\ requests[slot].pc = "done"
       /\ requests[slot].response # None
       /\ requests[slot].response[1].status_code = 200
       /\ \E r \in records : r.id[1] = requests[slot].run

\* the rows of the records table that the run created
RecordsOfRun(run) == {r \in records : r.id[1] = run}

\* the rows a run on the document saves when it runs alone: the records of
\* one of the lists the loop can end with for the document's file and the
\* factor table, each owned by the document
RowsAlone(run, document_id) ==
  {{[id |-> <<run, k>>, document_id |-> document_id, record |-> list[k]] :
      k \in DOMAIN list} :
     list \in LoopFrom(extracted_data_of[StoredFile(documents[document_id])],
                       emission_factors, 1)}

\* C26: runs on distinct documents do not disturb each other.  However the
\* steps of the runs interleave, the rows a run has saved are rows it would
\* save running alone on its document against the factor table, all owned
\* by one document, the document of the run.
C26_RunsIndependent ==
  \A run \in 1..runs :
    RecordsOfRun(run) # {} =>
      \E d \in DOMAIN documents :
        /\ RecordsOfRun(run) \in RowsAlone(run, d)
        /\ \A slot \in Slots :
             requests[slot].run = run => requests[slot].document_id = d

\* C26 witness: two runs on distinct documents overlap: the run begun later
\* has saved its records while the run begun first, on the other document,
\* still holds its calculated records unsaved
C26_Witness ==
  \E a, b \in Slots :
    /\ requests[a].pc = "calculated"
    /\ requests[a].records # <<>>
    /\ requests[b].pc = "done"
    /\ requests[b].run > requests[a].run
    /\ requests[b].document_id # requests[a].document_id
    /\ RecordsOfRun(requests[b].run) # {}

\* C29: the status of the document follows the run.  A request turned away
\* with 409 found the status "processing" and changes neither the documents
\* nor the records; a run that gets through its save leaves the status
\* "completed" with the processed date set; a run that ends in its except
\* clause leaves the status "failed" with an error message and no record of
\* the run in the table.
C29_StatusFollowsRun ==
  [][\A slot \in Slots :
       LET before == requests[slot]
           after == requests'[slot]
           d == after.document_id
       IN  /\ (after # before /\ after.response = HTTPException(409))
                => /\ documents[d].status = "processing"
                   /\ documents' = documents
                   /\ records' = records
           /\ (before.pc = "calculated" /\ after.pc = "done")
                => /\ documents'[d].status = "completed"
                   /\ documents'[d].processed_date # None
           /\ (before.pc = "except" /\ after.pc = "done")
                => /\ documents'[d].status = "failed"
                   /\ documents'[d].error_message # None
                   /\ \A r \in records' : r.id[1] # after.run]_vars

\* the sum of the co2e of a set of rows of the records table
RECURSIVE SumCo2e(_)
SumCo2e(rows) ==
  IF rows = {} THEN Float(0, 0)
  ELSE LET r == CHOOSE x \in rows : TRUE
       IN  Plus_(SumCo2e(rows \ {r}), r.record.co2e)

\* C30: the response of a successful request agrees with what the run
\* saved.  records_extracted is the number of rows of the run in the
\* records table, which is the number of extracted entries that
\* calculate_emissions has a result for; total_co2e is the sum of the co2e
\* of those rows, each scope total the sum over the rows of that scope, and
\* the three scope totals add up to total_co2e.
C30_ResponseTotals ==
  \A slot \in Slots :
    LET request == requests[slot]
    IN  (/\ request.pc = "done"
         /\ request.response # None
         /\ request.response[1].status_code = 200) =>
          LET body == request.response[1].body
              rows == RecordsOfRun(request.run)
              entries ==
                extracted_data_of[StoredFile(documents[request.document_id])]
          IN  /\ body.records_extracted = Cardinality(rows)
              /\ body.records_extracted =
                   Cardinality({i \in DOMAIN entries :
                                  None \notin calculate_emissions(
                                                entries[i], emission_factors)})
              /\ body.total_co2e = SumCo2e(rows)
              /\ body.scope1 = SumCo2e({r \in rows : r.record.scope = 1})
              /\ body.scope2 = SumCo2e({r \in rows : r.record.scope = 2})
              /\ body.scope3 = SumCo2e({r \in rows : r.record.scope = 3})
              /\ Plus_(Plus_(body.scope1, body.scope2), body.scope3) =
                   body.total_co2e

\* C30 witness: a request has answered 200 for a run that saved three
\* records, one of each scope, with a positive total in each scope
C30_Witness ==
  \E slot \in Slots :
    /\ requests[slot].pc = "done"
    /\ requests[slot].response # None
    /\ requests[slot].response[1].status_code = 200
    /\ requests[slot].response[1].body.records_extracted = 3
    /\ Cardinality(RecordsOfRun(requests[slot].run)) = 3
    /\ \A scope \in {1, 2, 3} :
         \E r \in RecordsOfRun(requests[slot].run) :
           r.record.scope = scope /\ r.record.co2e.mant > 0

====
